---- MODULE Spec2Model ----
(***************************************************************************)
(* Model of the CloudWatch OTLP tag enricher (main.go): the Firehose       *)
(* transformation handler, the enrichment loop, the file-backed resource   *)
(* cache and the size-delimited wire codec.                                *)
(***************************************************************************)
EXTENDS Integers, Sequences, FiniteSets, TLC

(***************************************************************************)
(* Bounds of the model.                                                    *)
(***************************************************************************)
MaxTime == 2
MaxInvocations == 2
MaxRecords == 2
MaxGets == 2
CacheTTL == 1

(***************************************************************************)
(* Small helpers.                                                          *)
(***************************************************************************)
Prefix(s, n) == SubSeq(s, 1, n)

Drop(s, n) == SubSeq(s, n + 1, Len(s))

Min2(a, b) == IF a < b THEN a ELSE b

(***************************************************************************)
(* The tagged resources discovery can return (model.TaggedResource).       *)
(***************************************************************************)
Tag(k, v) == [Key |-> k, Value |-> v]

ec2a == [ARN |-> "arn:aws:ec2:i-1", Namespace |-> "AWS/EC2", Region |-> "us-east-1",
         Tags |-> <<Tag("Name", "web"), Tag("Environment", "prod")>>]

ec2b == [ARN |-> "arn:aws:ec2:i-2", Namespace |-> "AWS/EC2", Region |-> "us-east-1",
         Tags |-> <<Tag("Name", "db")>>]

s3a == [ARN |-> "arn:aws:s3:::logs", Namespace |-> "AWS/S3", Region |-> "us-east-1",
        Tags |-> <<Tag("Name", "logs")>>]

AllResources == {ec2a, ec2b, s3a}

\* config.SupportedServices.GetService(ns) # nil
SupportedNamespaces == {"AWS/EC2", "AWS/S3"}

(***************************************************************************)
(* Errors are strings; "nil" is Go's nil error.                            *)
(***************************************************************************)
NoErr == "nil"

ErrExpectedToFindResources == "ErrExpectedToFindResources"

ErrDiscovery == "ThrottlingException"

(***************************************************************************)
(* Outcomes of tagging.Client.GetResources for a namespace: a resource     *)
(* list, the classified not-found error, or any other error.               *)
(***************************************************************************)
ResourceLists(ns) ==
    IF ns = "AWS/EC2" THEN {<<ec2b>>, <<ec2a, ec2b>>}
    ELSE IF ns = "AWS/S3" THEN {<<s3a>>}
    ELSE {}

DiscoveryOutcomes(ns) ==
    {[resources |-> rs, err |-> NoErr] : rs \in ResourceLists(ns)}
    \cup {[resources |-> <<>>, err |-> ErrExpectedToFindResources],
          [resources |-> <<>>, err |-> ErrDiscovery]}

(***************************************************************************)
(* encoding/json on []*model.TaggedResource, at token granularity: a nil   *)
(* slice is "null", a list is "[" obj "," obj ... "]"; each object token   *)
(* stands for the bytes of one resource.                                   *)
(***************************************************************************)
JSONObject(r) == r.ARN

FromJSONObject(tok) == CHOOSE r \in AllResources : r.ARN = tok

IsJSONObject(tok) == \E r \in AllResources : r.ARN = tok

RECURSIVE jsonElements(_)
jsonElements(rs) ==
    IF Len(rs) = 0 THEN <<>>
    ELSE IF Len(rs) = 1 THEN <<JSONObject(rs[1])>>
    ELSE <<JSONObject(rs[1]), ",">> \o jsonElements(Tail(rs))

jsonMarshal(rs) ==
    IF rs = <<>> THEN <<"null">> ELSE <<"[">> \o jsonElements(rs) \o <<"]">>

jsonUnmarshal(b) ==
    LET inner == SubSeq(b, 2, Len(b) - 1)
        wellFormed ==
            /\ Len(inner) % 2 = 1
            /\ \A i \in 1..Len(inner) :
                  IF i % 2 = 1 THEN IsJSONObject(inner[i]) ELSE inner[i] = ","
    IN  IF b = <<"null">> THEN [resources |-> <<>>, err |-> NoErr]
        ELSE IF Len(b) >= 2 /\ b[1] = "[" /\ b[Len(b)] = "]" /\ Len(inner) = 0
             THEN [resources |-> <<>>, err |-> NoErr]
        ELSE IF Len(b) >= 2 /\ b[1] = "[" /\ b[Len(b)] = "]" /\ wellFormed
             THEN [resources |->
                       [i \in 1..((Len(inner) + 1) \div 2) |-> FromJSONObject(inner[2 * i - 1])],
                   err |-> NoErr]
        ELSE [resources |-> <<>>, err |-> "json: syntax error"]

(***************************************************************************)
(* The cache file of one namespace: os.Open / Stat / Create / Write.       *)
(***************************************************************************)
NoFile == [exists |-> FALSE, mtime |-> 0, content |-> <<>>]

\* os.Create: O_CREATE|O_TRUNC, the modification time is the time of the call
osCreate_NoTruncate(file, t) == [exists |-> TRUE, mtime |-> t, content |-> file.content]

osCreate(file, t) == [exists |-> TRUE, mtime |-> t, content |-> <<>>]

\* f.Write(b) on a descriptor at offset 0: overwrites the first len(b) bytes
fWrite(file, b, t) ==
    [exists |-> TRUE, mtime |-> t, content |-> b \o Drop(file.content, Len(b))]

\* fs.ModTime().Add(cacheExpiration).Before(time.Now())
IsExpired_Inclusive(mtime, cacheExpiration, t) == mtime + cacheExpiration <= t

IsExpired(mtime, cacheExpiration, t) == mtime + cacheExpiration < t

(***************************************************************************)
(* I/O faults of one getOrCacheResources call: at most one of the file     *)
(* operations fails; a failed Write has written the first n bytes.         *)
(***************************************************************************)
NoFault == [at |-> "none", n |-> 0]

IOFaults == {NoFault} \cup {[at |-> a, n |-> 0] : a \in {"open", "stat", "create", "read", "close"}}
            \cup {[at |-> "write", n |-> n] : n \in 0..1}

\* retrieveResources: one call of client.GetResources (calls counts them)
retrieveResources_SwallowsErrors(disc) ==
    [resources |-> disc.resources, err |-> NoErr, calls |-> 1]

retrieveResources_NotFoundFails(disc) ==
    IF disc.err # NoErr
    THEN [resources |-> <<>>, err |-> disc.err, calls |-> 1]
    ELSE [resources |-> disc.resources, err |-> NoErr, calls |-> 1]

retrieveResources_Retries(disc) ==
    IF disc.err # NoErr /\ disc.err # ErrExpectedToFindResources
    THEN [resources |-> <<>>, err |-> disc.err, calls |-> 2]
    ELSE [resources |-> disc.resources, err |-> NoErr, calls |-> 1]

retrieveResources(disc) ==
    IF disc.err # NoErr /\ disc.err # ErrExpectedToFindResources
    THEN [resources |-> <<>>, err |-> disc.err, calls |-> 1]
    ELSE [resources |-> disc.resources, err |-> NoErr, calls |-> 1]

\* The result of one call: the returned pair, the file afterwards, how often
\* the discovery client was called and whether the file was opened.
GetResult(rs, e, f, c, o) ==
    [resources |-> rs, err |-> e, file |-> f, called |-> c, opened |-> o]

getOrCacheResources(file, t, cacheExpiration, cacheEnabled, disc, io) ==
    LET fetched == retrieveResources(disc)
        notExist == ~file.exists
        isExpired == IF notExist THEN FALSE ELSE IsExpired(file.mtime, cacheExpiration, t)
        b == jsonMarshal(fetched.resources)
        created == osCreate(file, t)
        parsed == jsonUnmarshal(file.content)
    IN  IF ~cacheEnabled
        THEN GetResult(fetched.resources, fetched.err, file, fetched.calls, FALSE)
        ELSE IF io.at = "open"
        THEN GetResult(<<>>, "open: permission denied", file, 0, TRUE)
        ELSE IF ~notExist /\ io.at = "stat"
        THEN GetResult(<<>>, "stat: input/output error", file, 0, TRUE)
        ELSE IF notExist \/ isExpired
        THEN IF fetched.err # NoErr
             THEN GetResult(<<>>, fetched.err, file, fetched.calls, TRUE)
             ELSE IF io.at = "create"
             THEN GetResult(<<>>, "create: permission denied", file, fetched.calls, TRUE)
             ELSE IF io.at = "write"
             THEN GetResult(<<>>, "write: no space left on device",
                            fWrite(created, Prefix(b, Min2(io.n, Len(b) - 1)), t), fetched.calls, TRUE)
             ELSE GetResult(fetched.resources, NoErr, fWrite(created, b, t), fetched.calls, TRUE)
        ELSE IF io.at = "read"
        THEN GetResult(<<>>, "read: input/output error", file, 0, TRUE)
        ELSE IF io.at = "close"
        THEN GetResult(<<>>, "close: input/output error", file, 0, TRUE)
        ELSE IF parsed.err # NoErr
        THEN GetResult(<<>>, parsed.err, file, 0, TRUE)
        ELSE GetResult(parsed.resources, NoErr, file, 0, TRUE)

(***************************************************************************)
(* OTLP values.  A KeyValue's value is a string, a kvlist or absent (nil). *)
(***************************************************************************)
StrKV(k, s) == [Key |-> k, Kind |-> "string", Str |-> s, List |-> <<>>]

ListKV(k, l) == [Key |-> k, Kind |-> "kvlist", Str |-> "", List |-> l]

NilKV(k) == [Key |-> k, Kind |-> "nil", Str |-> "", List |-> <<>>]

\* AnyValue.GetStringValue(): "" unless the value is a string
GetStringValue(kv) == IF kv.Kind = "string" THEN kv.Str ELSE ""

\* a float64 as an exact fraction
Float(n, d) == [num |-> n, den |-> d]

Dimension(n, v) == [Name |-> n, Value |-> v]

\* buildCloudWatchMetricFromKeyValues: later MetricName / Namespace entries
\* overwrite earlier ones, every Dimensions kvlist appends its entries.
RECURSIVE kvlistDimensions(_)
kvlistDimensions(values) ==
    IF values = <<>> THEN <<>>
    ELSE (IF values[1].Kind # "nil"
          THEN <<Dimension(values[1].Key, GetStringValue(values[1]))>>
          ELSE <<>>) \o kvlistDimensions(Tail(values))

RECURSIVE scanKeyValues(_, _)
scanKeyValues(cwm, attrs) ==
    IF attrs = <<>> THEN cwm
    ELSE LET a == attrs[1]
             next ==
                 IF a.Kind = "nil" THEN cwm
                 ELSE IF a.Key = "MetricName"
                 THEN [cwm EXCEPT !.MetricName = GetStringValue(a)]
                 ELSE IF a.Key = "Namespace"
                 THEN [cwm EXCEPT !.Namespace = GetStringValue(a)]
                 ELSE IF a.Key = "Dimensions" /\ a.Kind = "kvlist"
                 THEN [cwm EXCEPT !.Dimensions = @ \o kvlistDimensions(a.List)]
                 ELSE cwm
         IN  scanKeyValues(next, Tail(attrs))

\* the descriptor of the first attribute alone
buildCloudWatchMetricFromKeyValues_HeadOnly(attrs) ==
    scanKeyValues([Namespace |-> "", MetricName |-> "", Dimensions |-> <<>>],
                  IF attrs = <<>> THEN <<>> ELSE <<attrs[1]>>)

\* the descriptor with a metric name made up when there is none
buildCloudWatchMetricFromKeyValues_DefaultName(attrs) ==
    LET cwm == scanKeyValues([Namespace |-> "", MetricName |-> "", Dimensions |-> <<>>], attrs)
    IN  IF cwm.MetricName = "" THEN [cwm EXCEPT !.MetricName = "unknown"] ELSE cwm

buildCloudWatchMetricFromKeyValues(attrs) ==
    scanKeyValues([Namespace |-> "", MetricName |-> "", Dimensions |-> <<>>], attrs)

\* attrValue: the string value of the first attribute with the key, else ""
\* a lookup that finds no attribute
attrValue_NoMatch(attrs, key) == ""

RECURSIVE attrValue(_, _)
attrValue(attrs, key) ==
    IF attrs = <<>> THEN ""
    ELSE IF attrs[1].Key = key THEN GetStringValue(attrs[1])
    ELSE attrValue(Tail(attrs), key)

\* extractResourceAttributes: the last cloud.account.id / cloud.region wins
RECURSIVE scanResourceAttributes(_, _)
scanResourceAttributes(acc, attrs) ==
    IF attrs = <<>> THEN acc
    ELSE LET a == attrs[1]
             next ==
                 IF a.Key = "cloud.account.id" /\ a.Kind # "nil"
                 THEN [acc EXCEPT !.accountID = GetStringValue(a)]
                 ELSE IF a.Key = "cloud.region" /\ a.Kind # "nil"
                 THEN [acc EXCEPT !.resourceRegion = GetStringValue(a)]
                 ELSE acc
         IN  scanResourceAttributes(next, Tail(attrs))

\* the resource group's account and region left out
extractResourceAttributes_None(rm) == [accountID |-> "", resourceRegion |-> ""]

extractResourceAttributes(rm) ==
    scanResourceAttributes([accountID |-> "", resourceRegion |-> ""], rm.Attributes)

(***************************************************************************)
(* promutil of the exporter library: label and metric names.  The strings  *)
(* of the model are converted by table.                                    *)
(***************************************************************************)
SnakeCase(text) ==
    CASE text = "InstanceId" -> "instance_id"
      [] text = "BucketName" -> "bucket_name"
      [] text = "Name" -> "name"
      [] text = "Environment" -> "environment"
      [] text = "Team" -> "team"
      [] OTHER -> text

\* a label name must not be empty nor start with a digit
ValidLabelName(s) == s \notin {"", "9lives"}

\* promutil.PromStringTag(text, labelsSnakeCase) -> (ok, tag)
PromStringTag(text, labelsSnakeCase) ==
    LET s == IF labelsSnakeCase THEN SnakeCase(text) ELSE text
    IN  [ok |-> ValidLabelName(s), tag |-> s]

PromNamespace(ns) ==
    CASE ns = "AWS/EC2" -> "aws_ec2"
      [] ns = "AWS/S3" -> "aws_s3"
      [] OTHER -> "aws_" \o ns

PromMetricName(name) ==
    CASE name = "CPUUtilization" -> "cpuutilization"
      [] name = "BucketSizeBytes" -> "bucket_size_bytes"
      [] OTHER -> name

PromStatistic(stat) ==
    CASE stat = "SampleCount" -> "sample_count"
      [] stat = "Sum" -> "sum"
      [] stat = "Average" -> "average"
      [] stat = "Minimum" -> "minimum"
      [] stat = "Maximum" -> "maximum"
      [] OTHER -> stat

\* promutil.BuildMetricName(namespace, metricName, statistic)
BuildMetricName(namespace, metricName, statistic) ==
    PromNamespace(namespace) \o "_" \o PromMetricName(metricName)
        \o (IF statistic # "" THEN "_" \o PromStatistic(statistic) ELSE "")

(***************************************************************************)
(* Label construction.                                                     *)
(***************************************************************************)
\* the nil *model.TaggedResource
NilResource == [ARN |-> "", Namespace |-> "", Region |-> "", Tags |-> <<>>]

RECURSIVE tagValue(_, _)
tagValue(tags, key) ==
    IF tags = <<>> THEN ""
    ELSE IF tags[1].Key = key THEN tags[1].Value
    ELSE tagValue(Tail(tags), key)

\* the tags of the resource that are wanted
MetricTags_OnlyCarried(r, tagsOnMetrics) ==
    LET Wanted(t) == \E i \in 1..Len(tagsOnMetrics) : tagsOnMetrics[i] = t.Key
    IN  SelectSeq(r.Tags, Wanted)

\* TaggedResource.MetricTags: one tag per wanted key, empty when not carried
MetricTags(r, tagsOnMetrics) ==
    [i \in 1..Len(tagsOnMetrics) |-> Tag(tagsOnMetrics[i], tagValue(r.Tags, tagsOnMetrics[i]))]

RECURSIVE dimensionLabels(_, _)
dimensionLabels(dims, labelsSnakeCase) ==
    IF dims = <<>> THEN <<>>
    ELSE LET p == PromStringTag(dims[1].Name, labelsSnakeCase)
         IN  (IF p.ok THEN <<StrKV("dimension_" \o p.tag, dims[1].Value)>> ELSE <<>>)
             \o dimensionLabels(Tail(dims), labelsSnakeCase)

RECURSIVE tagLabels(_, _, _)
tagLabels(prefix, tags, labelsSnakeCase) ==
    IF tags = <<>> THEN <<>>
    ELSE LET p == PromStringTag(tags[1].Key, labelsSnakeCase)
         IN  (IF p.ok THEN <<StrKV(prefix \o p.tag, tags[1].Value)>> ELSE <<>>)
             \o tagLabels(prefix, Tail(tags), labelsSnakeCase)

\* the label builder with the tag labels ahead of the dimension labels
buildYACELabelsKeyValue_TagsFirst(cwm, r, skip, staticLabels, defaultLabels, labelsSnakeCase, exportedTags, region, accountID) ==
    LET usable == r # NilResource /\ ~skip
        tagsToExport == IF Len(exportedTags) > 0 THEN MetricTags(r, exportedTags) ELSE r.Tags
    IN  (IF region # "" THEN <<StrKV("region", region)>> ELSE <<>>)
        \o (IF accountID # "" THEN <<StrKV("account_id", accountID)>> ELSE <<>>)
        \o (IF cwm.Namespace # "" THEN <<StrKV("namespace", cwm.Namespace)>> ELSE <<>>)
        \o <<StrKV("name", IF usable THEN r.ARN ELSE "global")>>
        \o (IF usable THEN tagLabels("tag_", tagsToExport, labelsSnakeCase) ELSE <<>>)
        \o dimensionLabels(cwm.Dimensions, labelsSnakeCase)
        \o (IF defaultLabels \/ usable
            THEN tagLabels("custom_tag_", staticLabels, labelsSnakeCase) ELSE <<>>)

\* the label builder with the static labels tied to the resource alone
buildYACELabelsKeyValue_NoDefaultLabels(cwm, r, skip, staticLabels, defaultLabels, labelsSnakeCase, exportedTags, region, accountID) ==
    LET usable == r # NilResource /\ ~skip
        tagsToExport == IF Len(exportedTags) > 0 THEN MetricTags(r, exportedTags) ELSE r.Tags
    IN  (IF region # "" THEN <<StrKV("region", region)>> ELSE <<>>)
        \o (IF accountID # "" THEN <<StrKV("account_id", accountID)>> ELSE <<>>)
        \o (IF cwm.Namespace # "" THEN <<StrKV("namespace", cwm.Namespace)>> ELSE <<>>)
        \o <<StrKV("name", IF usable THEN r.ARN ELSE "global")>>
        \o dimensionLabels(cwm.Dimensions, labelsSnakeCase)
        \o (IF usable THEN tagLabels("tag_", tagsToExport, labelsSnakeCase) ELSE <<>>)
        \o (IF usable THEN tagLabels("custom_tag_", staticLabels, labelsSnakeCase) ELSE <<>>)

\* staticLabels is the map's entries in the order this call iterates them
buildYACELabelsKeyValue(cwm, r, skip, staticLabels, defaultLabels, labelsSnakeCase, exportedTags, region, accountID) ==
    LET usable == r # NilResource /\ ~skip
        nameVal == IF usable THEN r.ARN ELSE "global"
        tagsToExport == IF Len(exportedTags) > 0 THEN MetricTags(r, exportedTags) ELSE r.Tags
    IN  (IF region # "" THEN <<StrKV("region", region)>> ELSE <<>>)
        \o (IF accountID # "" THEN <<StrKV("account_id", accountID)>> ELSE <<>>)
        \o (IF cwm.Namespace # "" THEN <<StrKV("namespace", cwm.Namespace)>> ELSE <<>>)
        \o <<StrKV("name", nameVal)>>
        \o dimensionLabels(cwm.Dimensions, labelsSnakeCase)
        \o (IF usable THEN tagLabels("tag_", tagsToExport, labelsSnakeCase) ELSE <<>>)
        \o (IF defaultLabels \/ usable
            THEN tagLabels("custom_tag_", staticLabels, labelsSnakeCase) ELSE <<>>)

(***************************************************************************)
(* Summary to gauge expansion.  A quantile is held in thousandths.         *)
(***************************************************************************)
defaultYACEStats == {"Maximum", "Minimum", "Average", "Sum", "SampleCount"}

\* pct := q * 100 in float64: the quantiles (in thousandths, below 1.0) whose
\* percentile is a whole number but whose product is a neighbouring double,
\* e.g. 0.57 * 100 = 56.99999999999999 and 0.07 * 100 = 7.000000000000001
InexactPercent == {70, 140, 280, 290, 550, 560, 570, 580}

\* "%.1f" prints an inexact product rounded to one decimal, "57.0"
quantileToStatistic(q) ==
    IF q = 0 THEN "Minimum"
    ELSE IF q = 1000 THEN "Maximum"
    ELSE IF q % 10 = 0 /\ q \notin InexactPercent THEN "p" \o ToString(q \div 10)
    ELSE "p" \o ToString(q \div 10) \o "_" \o ToString(q % 10)

DataPoint(attrs, start, ts, count, sum, qvs, value) ==
    [Attributes |-> attrs, StartTimeUnixNano |-> start, TimeUnixNano |-> ts,
     Count |-> count, Sum |-> sum, QuantileValues |-> qvs, Value |-> value]

Metric(name, type, dps) == [Name |-> name, Type |-> type, DataPoints |-> dps]

newGauge(name, value, timestampNano, startTimeNano, attrs) ==
    Metric(name, "Gauge",
           <<DataPoint(attrs, startTimeNano, timestampNano, 0, Float(0, 1), <<>>, value)>>)

RECURSIVE quantileGauges(_, _, _, _)
quantileGauges(cwm, dp, qvs, attrs_stats) ==
    IF qvs = <<>> THEN <<>>
    ELSE LET stat == quantileToStatistic(qvs[1].Quantile)
         IN  (IF stat \in attrs_stats.enabledStats
              THEN <<newGauge(BuildMetricName(cwm.Namespace, cwm.MetricName, stat),
                              qvs[1].Value, dp.TimeUnixNano, dp.StartTimeUnixNano,
                              attrs_stats.attrs)>>
              ELSE <<>>)
             \o quantileGauges(cwm, dp, Tail(qvs), attrs_stats)

\* the expander without its guard on the count
summaryToGauges_AverageUnguarded(cwm, dp, attrs, enabledStats) ==
    LET name(stat) == BuildMetricName(cwm.Namespace, cwm.MetricName, stat)
    IN  (IF "SampleCount" \in enabledStats
         THEN <<newGauge(name("SampleCount"), Float(dp.Count, 1), dp.TimeUnixNano,
                         dp.StartTimeUnixNano, attrs)>>
         ELSE <<>>)
        \o (IF "Sum" \in enabledStats
            THEN <<newGauge(name("Sum"), dp.Sum, dp.TimeUnixNano, dp.StartTimeUnixNano, attrs)>>
            ELSE <<>>)
        \o (IF "Average" \in enabledStats
            THEN <<newGauge(name("Average"), Float(dp.Sum.num, dp.Sum.den * dp.Count),
                            dp.TimeUnixNano, dp.StartTimeUnixNano, attrs)>>
            ELSE <<>>)
        \o quantileGauges(cwm, dp, dp.QuantileValues,
                          [attrs |-> attrs, enabledStats |-> enabledStats])

summaryToGauges(cwm, dp, attrs, enabledStats) ==
    LET ts == dp.TimeUnixNano
        startTs == dp.StartTimeUnixNano
        count == dp.Count
        sum == dp.Sum
        name(stat) == BuildMetricName(cwm.Namespace, cwm.MetricName, stat)
    IN  (IF "SampleCount" \in enabledStats
         THEN <<newGauge(name("SampleCount"), Float(count, 1), ts, startTs, attrs)>>
         ELSE <<>>)
        \o (IF "Sum" \in enabledStats
            THEN <<newGauge(name("Sum"), sum, ts, startTs, attrs)>> ELSE <<>>)
        \o (IF "Average" \in enabledStats /\ count > 0
            THEN <<newGauge(name("Average"), Float(sum.num, sum.den * count), ts, startTs, attrs)>>
            ELSE <<>>)
        \o quantileGauges(cwm, dp, dp.QuantileValues,
                          [attrs |-> attrs, enabledStats |-> enabledStats])

(***************************************************************************)
(* Export requests.  A request is a list of ResourceMetrics, each with its *)
(* resource attributes and its ScopeMetrics (lists of metrics).            *)
(***************************************************************************)
ScopeMetrics(metrics) == [Metrics |-> metrics]

ResourceMetrics(attrs, sms) == [Attributes |-> attrs, ScopeMetrics |-> sms]

ExportMetricsServiceRequest(rms) == [ResourceMetrics |-> rms]

(***************************************************************************)
(* proto.Marshal / proto.Unmarshal of a request.  The wire is a sequence   *)
(* of tokens (strings), each standing for a run of bytes; a number is the  *)
(* token of its decimal digits.                                            *)
(***************************************************************************)
RECURSIVE marshalKeyValues(_)
marshalKeyValues(kvs) ==
    IF kvs = <<>> THEN <<>>
    ELSE <<"kv", kvs[1].Key, kvs[1].Kind, kvs[1].Str, ToString(Len(kvs[1].List))>>
         \o marshalKeyValues(kvs[1].List) \o marshalKeyValues(Tail(kvs))

RECURSIVE marshalQuantiles(_)
marshalQuantiles(qvs) ==
    IF qvs = <<>> THEN <<>>
    ELSE <<"q", ToString(qvs[1].Quantile), ToString(qvs[1].Value.num), ToString(qvs[1].Value.den)>>
         \o marshalQuantiles(Tail(qvs))

marshalDataPoint(dp) ==
    <<"dp", ToString(Len(dp.Attributes))>> \o marshalKeyValues(dp.Attributes)
    \o <<ToString(dp.StartTimeUnixNano), ToString(dp.TimeUnixNano), ToString(dp.Count),
         ToString(dp.Sum.num), ToString(dp.Sum.den), ToString(Len(dp.QuantileValues))>>
    \o marshalQuantiles(dp.QuantileValues)
    \o <<ToString(dp.Value.num), ToString(dp.Value.den)>>

RECURSIVE marshalDataPoints(_)
marshalDataPoints(dps) ==
    IF dps = <<>> THEN <<>> ELSE marshalDataPoint(dps[1]) \o marshalDataPoints(Tail(dps))

RECURSIVE marshalMetrics(_)
marshalMetrics(ms) ==
    IF ms = <<>> THEN <<>>
    ELSE <<"metric", ms[1].Name, ms[1].Type, ToString(Len(ms[1].DataPoints))>>
         \o marshalDataPoints(ms[1].DataPoints) \o marshalMetrics(Tail(ms))

RECURSIVE marshalScopes(_)
marshalScopes(sms) ==
    IF sms = <<>> THEN <<>>
    ELSE <<"scope", ToString(Len(sms[1].Metrics))>> \o marshalMetrics(sms[1].Metrics)
         \o marshalScopes(Tail(sms))

RECURSIVE marshalResourceMetrics(_)
marshalResourceMetrics(rms) ==
    IF rms = <<>> THEN <<>>
    ELSE <<"rm", ToString(Len(rms[1].Attributes))>> \o marshalKeyValues(rms[1].Attributes)
         \o <<ToString(Len(rms[1].ScopeMetrics))>> \o marshalScopes(rms[1].ScopeMetrics)
         \o marshalResourceMetrics(Tail(rms))

protoMarshal(req) == marshalResourceMetrics(req.ResourceMetrics)

(***************************************************************************)
(* Sample telemetry: the data points, metrics and requests the inputs are  *)
(* drawn from.                                                             *)
(***************************************************************************)
ec2Attrs ==
    <<StrKV("Namespace", "AWS/EC2"), StrKV("MetricName", "CPUUtilization"),
      ListKV("Dimensions", <<StrKV("InstanceId", "i-1")>>)>>

s3Attrs ==
    <<StrKV("MetricName", "BucketSizeBytes"), StrKV("Namespace", "AWS/S3"),
      ListKV("Dimensions", <<StrKV("BucketName", "logs")>>), StrKV("Statistic", "Average")>>

noNameAttrs == <<StrKV("Namespace", "AWS/EC2")>>

unsupportedAttrs == <<StrKV("Namespace", "Custom/App"), StrKV("MetricName", "Requests")>>

QuantileValue(q, v) == [Quantile |-> q, Value |-> v]

summaryDP(attrs) ==
    DataPoint(attrs, 1, 2, 10, Float(50, 1),
              <<QuantileValue(0, Float(2, 1)), QuantileValue(1000, Float(10, 1))>>, Float(0, 1))

gaugeDP == DataPoint(<<StrKV("host", "a")>>, 1, 2, 0, Float(0, 1), <<>>, Float(7, 1))

resourceAttrs == <<StrKV("cloud.account.id", "123456789012"), StrKV("cloud.region", "eu-west-1")>>

\* two data points of one namespace in one metric
reqEC2 ==
    ExportMetricsServiceRequest(<<ResourceMetrics(resourceAttrs, <<ScopeMetrics(
        <<Metric("amazonaws.com/AWS/EC2/CPUUtilization", "Summary",
                 <<summaryDP(ec2Attrs), summaryDP(ec2Attrs)>>)>>)>>)>>)

reqS3 ==
    ExportMetricsServiceRequest(<<ResourceMetrics(<<>>, <<ScopeMetrics(
        <<Metric("amazonaws.com/AWS/S3/BucketSizeBytes", "Summary", <<summaryDP(s3Attrs)>>)>>)>>)>>)

\* two metric groups; a gauge, and data points that are skipped
reqMixed ==
    ExportMetricsServiceRequest(<<ResourceMetrics(<<>>,
        <<ScopeMetrics(<<Metric("amazonaws.com/AWS/EC2/CPUUtilization", "Summary",
                            <<summaryDP(noNameAttrs), summaryDP(ec2Attrs)>>)>>),
          ScopeMetrics(<<Metric("host.cpu", "Gauge", <<gaugeDP>>),
                         Metric("custom", "Summary", <<summaryDP(unsupportedAttrs)>>)>>)>>)>>)

\* a request whose encoding needs a two-byte length prefix
reqBig ==
    ExportMetricsServiceRequest(<<ResourceMetrics(<<>>, <<ScopeMetrics(
        <<Metric("host.cpu", "Gauge", [i \in 1..9 |-> gaugeDP])>>)>>)>>)

\* the statistic given in lower case, after a Statistic entry without a value
ec2StatAttrs == ec2Attrs \o <<NilKV("Statistic"), StrKV("statistic", "Sum")>>

otherResourceAttrs ==
    <<StrKV("cloud.account.id", "210987654321"), StrKV("cloud.region", "ap-south-1")>>

\* one namespace in two resource groups of different accounts and regions
reqRegions ==
    ExportMetricsServiceRequest(
        <<ResourceMetrics(resourceAttrs, <<ScopeMetrics(
              <<Metric("amazonaws.com/AWS/EC2/CPUUtilization", "Summary",
                       <<summaryDP(ec2StatAttrs)>>)>>)>>),
          ResourceMetrics(otherResourceAttrs, <<ScopeMetrics(
              <<Metric("amazonaws.com/AWS/EC2/CPUUtilization", "Summary",
                       <<summaryDP(ec2Attrs)>>)>>)>>)>>)

reqEmpty == ExportMetricsServiceRequest(<<>>)

SampleRequests == {reqEC2, reqS3, reqMixed, reqBig, reqEmpty}

\* the decimal tokens and their values
DecimalValue ==
    [tok \in {ToString(n) : n \in 0..1000} |-> CHOOSE n \in 0..1000 : ToString(n) = tok]

IsNumber(tok) == tok \in DOMAIN DecimalValue

Parsed(v, r) == [ok |-> TRUE, v |-> v, r |-> r]

ParseError == [ok |-> FALSE, v |-> <<>>, r |-> <<>>]

\* the element of a set of one element: a parse step's result is bound as the
\* element of a singleton, so that it is computed once
Only(S) == CHOOSE x \in S : TRUE

\* n KeyValue messages at the head of r
RECURSIVE parseKeyValues(_, _)
parseKeyValues(n, r) ==
    IF n = 0 THEN Parsed(<<>>, r)
    ELSE IF Len(r) < 5 THEN ParseError
    ELSE IF r[1] # "kv" \/ r[3] \notin {"string", "kvlist", "nil"} \/ ~IsNumber(r[5])
    THEN ParseError
    ELSE Only({IF ~list.ok THEN ParseError
               ELSE Only({IF ~rest.ok THEN ParseError
                          ELSE Parsed(<<[Key |-> r[2], Kind |-> r[3], Str |-> r[4],
                                         List |-> list.v]>> \o rest.v, rest.r) :
                          rest \in {parseKeyValues(n - 1, list.r)}}) :
               list \in {parseKeyValues(DecimalValue[r[5]], Drop(r, 5))}})

RECURSIVE parseQuantiles(_, _)
parseQuantiles(n, r) ==
    IF n = 0 THEN Parsed(<<>>, r)
    ELSE IF Len(r) < 4 THEN ParseError
    ELSE IF r[1] # "q" \/ ~IsNumber(r[2]) \/ ~IsNumber(r[3]) \/ ~IsNumber(r[4])
    THEN ParseError
    ELSE Only({IF ~rest.ok THEN ParseError
               ELSE Parsed(<<QuantileValue(DecimalValue[r[2]],
                                           Float(DecimalValue[r[3]], DecimalValue[r[4]]))>>
                           \o rest.v, rest.r) :
               rest \in {parseQuantiles(n - 1, Drop(r, 4))}})

\* the fields of a data point after its attributes
parseDataPointFields(attrs, f) ==
    IF Len(f) < 6 THEN ParseError
    ELSE IF \E i \in 1..6 : ~IsNumber(f[i]) THEN ParseError
    ELSE Only({IF ~qvs.ok THEN ParseError
               ELSE IF Len(qvs.r) < 2 THEN ParseError
               ELSE IF ~IsNumber(qvs.r[1]) \/ ~IsNumber(qvs.r[2]) THEN ParseError
               ELSE Parsed(DataPoint(attrs, DecimalValue[f[1]], DecimalValue[f[2]],
                                     DecimalValue[f[3]],
                                     Float(DecimalValue[f[4]], DecimalValue[f[5]]), qvs.v,
                                     Float(DecimalValue[qvs.r[1]], DecimalValue[qvs.r[2]])),
                           Drop(qvs.r, 2)) :
               qvs \in {parseQuantiles(DecimalValue[f[6]], Drop(f, 6))}})

parseDataPoint(r) ==
    IF Len(r) < 2 THEN ParseError
    ELSE IF r[1] # "dp" \/ ~IsNumber(r[2]) THEN ParseError
    ELSE Only({IF ~attrs.ok THEN ParseError ELSE parseDataPointFields(attrs.v, attrs.r) :
               attrs \in {parseKeyValues(DecimalValue[r[2]], Drop(r, 2))}})

RECURSIVE parseDataPoints(_, _)
parseDataPoints(n, r) ==
    IF n = 0 THEN Parsed(<<>>, r)
    ELSE Only({IF ~dp.ok THEN ParseError
               ELSE Only({IF ~rest.ok THEN ParseError ELSE Parsed(<<dp.v>> \o rest.v, rest.r) :
                          rest \in {parseDataPoints(n - 1, dp.r)}}) :
               dp \in {parseDataPoint(r)}})

RECURSIVE parseMetrics(_, _)
parseMetrics(n, r) ==
    IF n = 0 THEN Parsed(<<>>, r)
    ELSE IF Len(r) < 4 THEN ParseError
    ELSE IF r[1] # "metric" \/ r[3] \notin {"Summary", "Gauge"} \/ ~IsNumber(r[4])
    THEN ParseError
    ELSE Only({IF ~dps.ok THEN ParseError
               ELSE Only({IF ~rest.ok THEN ParseError
                          ELSE Parsed(<<Metric(r[2], r[3], dps.v)>> \o rest.v, rest.r) :
                          rest \in {parseMetrics(n - 1, dps.r)}}) :
               dps \in {parseDataPoints(DecimalValue[r[4]], Drop(r, 4))}})

RECURSIVE parseScopes(_, _)
parseScopes(n, r) ==
    IF n = 0 THEN Parsed(<<>>, r)
    ELSE IF Len(r) < 2 THEN ParseError
    ELSE IF r[1] # "scope" \/ ~IsNumber(r[2]) THEN ParseError
    ELSE Only({IF ~ms.ok THEN ParseError
               ELSE Only({IF ~rest.ok THEN ParseError
                          ELSE Parsed(<<ScopeMetrics(ms.v)>> \o rest.v, rest.r) :
                          rest \in {parseScopes(n - 1, ms.r)}}) :
               ms \in {parseMetrics(DecimalValue[r[2]], Drop(r, 2))}})

\* the scopes of a ResourceMetrics after its attributes, and the messages after it
RECURSIVE parseResourceMetrics(_)
parseResourceScopes(attrs, f) ==
    IF f = <<>> THEN ParseError
    ELSE IF ~IsNumber(f[1]) THEN ParseError
    ELSE Only({IF ~sms.ok THEN ParseError
               ELSE Only({IF ~rest.ok THEN ParseError
                          ELSE Parsed(<<ResourceMetrics(attrs, sms.v)>> \o rest.v, rest.r) :
                          rest \in {parseResourceMetrics(sms.r)}}) :
               sms \in {parseScopes(DecimalValue[f[1]], Tail(f))}})

\* the ResourceMetrics messages that fill r to its end
parseResourceMetrics(r) ==
    IF r = <<>> THEN Parsed(<<>>, r)
    ELSE IF Len(r) < 2 THEN ParseError
    ELSE IF r[1] # "rm" \/ ~IsNumber(r[2]) THEN ParseError
    ELSE Only({IF ~attrs.ok THEN ParseError ELSE parseResourceScopes(attrs.v, attrs.r) :
               attrs \in {parseKeyValues(DecimalValue[r[2]], Drop(r, 2))}})

protoUnmarshal(body) ==
    Only({IF p.ok THEN [m |-> ExportMetricsServiceRequest(p.v), err |-> NoErr]
          ELSE [m |-> reqEmpty, err |-> "proto: cannot parse invalid wire-format data"] :
          p \in {parseResourceMetrics(body)}})

(***************************************************************************)
(* pbutil.WriteDelimited / ReadDelimited: a varint length prefix, then the *)
(* message.  A prefix byte is the token of its value.                      *)
(***************************************************************************)
MaxVarintLen32 == 5

EOF == "EOF"

ErrUnexpectedEOF == "unexpected EOF"

errInvalidVarint == "invalid varint32 encountered"

ByteValue(tok) == CHOOSE n \in 0..255 : ToString(n) = tok

RECURSIVE PutUvarint(_)
PutUvarint(x) ==
    IF x < 128 THEN <<ToString(x)>>
    ELSE <<ToString(128 + (x % 128))>> \o PutUvarint(x \div 128)

RECURSIVE Uvarint(_)
Uvarint(buf) == IF buf = <<>> THEN 0 ELSE (buf[1] % 128) + 128 * Uvarint(Tail(buf))

\* a frame written with the length of its body short by one
WriteDelimited_ShortLength(m) ==
    LET body == protoMarshal(m) IN PutUvarint(IF body = <<>> THEN 0 ELSE Len(body) - 1) \o body

WriteDelimited(m) == LET body == protoMarshal(m) IN PutUvarint(Len(body)) \o body

\* the header loop of ReadDelimited: one byte at a time until a varint decodes
RECURSIVE readHeader(_, _)
readHeader(r, headerBuf) ==
    IF Len(headerBuf) >= MaxVarintLen32
    THEN [err |-> errInvalidVarint, messageLength |-> 0, r |-> r]
    ELSE IF r = <<>>
    THEN [err |-> EOF, messageLength |-> 0, r |-> r]
    ELSE LET h == Append(headerBuf, ByteValue(r[1]))
         IN  IF h[Len(h)] < 128
             THEN [err |-> NoErr, messageLength |-> Uvarint(h), r |-> Tail(r)]
             ELSE readHeader(Tail(r), h)

\* io.ReadFull(r, buf of n bytes): EOF if nothing was read, ErrUnexpectedEOF
\* if fewer than n bytes were
ReadFull(r, n) ==
    IF Len(r) >= n THEN [err |-> NoErr, buf |-> Prefix(r, n), r |-> Drop(r, n)]
    ELSE IF Len(r) = 0 THEN [err |-> EOF, buf |-> <<>>, r |-> r]
    ELSE [err |-> ErrUnexpectedEOF, buf |-> r, r |-> <<>>]

ReadDelimited(r) ==
    LET h == readHeader(r, <<>>)
        body == ReadFull(h.r, h.messageLength)
        u == protoUnmarshal(body.buf)
    IN  IF h.err # NoErr THEN [err |-> h.err, m |-> reqEmpty, r |-> h.r]
        ELSE IF body.err # NoErr THEN [err |-> body.err, m |-> reqEmpty, r |-> body.r]
        ELSE [err |-> u.err, m |-> u.m, r |-> body.r]

\* errors.Is(err, io.EOF)
IsEOF(err) == err = EOF

RECURSIVE readRequests(_, _)
readRequests(r, requests) ==
    LET d == ReadDelimited(r)
    IN  IF d.err # NoErr
        THEN IF IsEOF(d.err) THEN [requests |-> requests, err |-> NoErr]
             ELSE [requests |-> <<>>, err |-> d.err]
        ELSE readRequests(d.r, Append(requests, d.m))

rawDataIntoRequests(input) == readRequests(input, <<>>)

RECURSIVE requestsIntoRawData(_)
requestsIntoRawData(reqs) ==
    IF reqs = <<>> THEN <<>> ELSE WriteDelimited(reqs[1]) \o requestsIntoRawData(Tail(reqs))

(***************************************************************************)
(* Configuration read from the environment at the top of lambdaHandler.    *)
(***************************************************************************)
Config(contRes, contExp, cacheEnabled, outMode, yace, endpoint) ==
    [continueOnResourceFailure |-> contRes,
     continueOnExportFailure |-> contExp,
     fileCacheEnabled |-> cacheEnabled,
     fileCacheExpiration |-> CacheTTL,
     outputMode |-> outMode,
     yaceCompatMode |-> yace,
     yaceCompatStats |-> defaultYACEStats,
     endpoint |-> endpoint,
     region |-> "us-east-1",
     staticLabels |-> <<Tag("env", "prod")>>,
     defaultLabels |-> FALSE,
     labelsSnakeCase |-> TRUE,
     exportedTags |-> <<>>]

(***************************************************************************)
(* State.                                                                  *)
(***************************************************************************)
VARIABLES
    cfg,                      \* the configuration of the deployed function
    now,                      \* the clock
    files,                    \* the cache file of every namespace
    invocation,               \* number of the running invocation
    pc,                       \* where lambdaHandler stands
    request,                  \* the Firehose event: its records
    recIdx,                   \* index of the record being processed
    expMetricsReqs,           \* the decoded requests of that record
    todo,                     \* the loop iterations of enhanceRequests still to run
    newMetrics,               \* the metrics collected for the current group
    resourcesPerNamespace,    \* in-memory resources, per namespace
    associatorsPerNamespace,  \* in-memory associators, per namespace
    grpcClient,               \* whether the export client exists
    responseRecords,          \* the response records built so far
    returned,                 \* what lambdaHandler returned
    exported,                 \* the requests the collector accepted
    lastGet,                  \* the last resource lookup and what it did
    discoveryCalls,           \* calls of the discovery client in this invocation, per namespace
    fetchedOK,                \* the namespaces some discovery call has succeeded for
    visited,                  \* the loop iterations run, with their outcome
    procs,                    \* concurrent invocations refreshing one file
    decoder,                  \* a decode of one buffer, frame by frame
    call                      \* one call of a function of the pipeline on its own

hvars == <<pc, request, recIdx, expMetricsReqs, todo, newMetrics, associatorsPerNamespace,
           grpcClient, responseRecords, returned, exported, visited>>

cvars == <<cfg, now, files, invocation, resourcesPerNamespace, lastGet, discoveryCalls,
           fetchedOK>>

vars == <<hvars, cvars, procs, decoder, call>>

(***************************************************************************)
(* The resource lookup of enhanceRequests: the in-memory map first, then   *)
(* getOrCacheResources, then the failure policy.                           *)
(***************************************************************************)
lookupResources_NeverAborts(resourceCache, namespace, file, t, c, disc, io) ==
    LET g == getOrCacheResources(file, t, c.fileCacheExpiration, c.fileCacheEnabled, disc, io)
    IN  IF namespace \in DOMAIN resourceCache
        THEN [cache |-> resourceCache, file |-> file, outcome |-> "ok", err |-> NoErr,
              hit |-> TRUE, called |-> 0, opened |-> FALSE, region |-> "",
              resources |-> resourceCache[namespace]]
        ELSE IF g.err # NoErr /\ g.err # ErrExpectedToFindResources
        THEN [cache |-> resourceCache, file |-> g.file, outcome |-> "skip",
              err |-> g.err, hit |-> FALSE, called |-> g.called, opened |-> g.opened,
              region |-> c.region, resources |-> <<>>]
        ELSE [cache |-> (namespace :> g.resources) @@ resourceCache, file |-> g.file,
              outcome |-> "ok", err |-> NoErr, hit |-> FALSE, called |-> g.called,
              opened |-> g.opened, region |-> c.region, resources |-> g.resources]

lookupResources(resourceCache, namespace, file, t, c, disc, io) ==
    LET g == getOrCacheResources(file, t, c.fileCacheExpiration, c.fileCacheEnabled, disc, io)
    IN  IF namespace \in DOMAIN resourceCache
        THEN [cache |-> resourceCache, file |-> file, outcome |-> "ok", err |-> NoErr,
              hit |-> TRUE, called |-> 0, opened |-> FALSE, region |-> "",
              resources |-> resourceCache[namespace]]
        ELSE IF g.err # NoErr /\ g.err # ErrExpectedToFindResources
        THEN [cache |-> resourceCache, file |-> g.file,
              outcome |-> IF c.continueOnResourceFailure THEN "skip" ELSE "abort",
              err |-> g.err, hit |-> FALSE, called |-> g.called, opened |-> g.opened,
              region |-> c.region, resources |-> <<>>]
        ELSE [cache |-> (namespace :> g.resources) @@ resourceCache, file |-> g.file,
              outcome |-> "ok", err |-> NoErr, hit |-> FALSE, called |-> g.called,
              opened |-> g.opened, region |-> c.region, resources |-> g.resources]

\* what the model remembers of a lookup: its number within the invocation,
\* the discovery outcome it consumed (if it called discovery) and its result
NoDisc == [resources |-> <<>>, err |-> NoErr]

GetRecord(namespace, disc, look, n) ==
    [n |-> n, namespace |-> namespace, disc |-> IF look.called > 0 THEN disc ELSE NoDisc,
     hit |-> look.hit, called |-> look.called, opened |-> look.opened, region |-> look.region,
     outcome |-> look.outcome, err |-> look.err, resources |-> look.resources]

NoGet ==
    [n |-> 0, namespace |-> "", disc |-> NoDisc, hit |-> FALSE, called |-> 0,
     opened |-> FALSE, region |-> "", outcome |-> "ok", err |-> NoErr, resources |-> <<>>]

\* the namespaces (none or namespace) whose discovery call succeeded in a lookup:
\* the client returned no error or the classified not-found error
FetchedNow(namespace, disc, look) ==
    IF look.called > 0 /\ disc.err \in {NoErr, ErrExpectedToFindResources}
    THEN {namespace} ELSE {}

\* the inputs a lookup consumes: none when the in-memory map answers
DiscoveryInputs(resourceCache, namespace) ==
    IF namespace \in DOMAIN resourceCache
    THEN {NoDisc}
    ELSE DiscoveryOutcomes(namespace)

FaultInputs(resourceCache, namespace, c) ==
    IF namespace \in DOMAIN resourceCache \/ ~c.fileCacheEnabled THEN {NoFault} ELSE IOFaults

(***************************************************************************)
(* The environment: time passes.                                           *)
(***************************************************************************)
Tick ==
    /\ now < MaxTime
    /\ now' = now + 1
    /\ UNCHANGED <<hvars, cfg, files, invocation, resourcesPerNamespace, lastGet,
                   discoveryCalls, fetchedOK, procs, decoder, call>>

(***************************************************************************)
(* The resource cache on its own: the lookups of successive invocations on *)
(* one container, whose files outlive an invocation and whose in-memory    *)
(* map does not.                                                           *)
(***************************************************************************)
NoReturn == [set |-> FALSE, isNil |-> TRUE, Records |-> <<>>, err |-> NoErr, at |-> ""]

NoDecoder ==
    [input |-> <<>>, r |-> <<>>, requests |-> <<>>, err |-> NoErr, state |-> "idle",
     complete |-> <<>>, cut |-> 0, header |-> 0]

NoCall == [fn |-> "", state |-> "idle"]

IdleHandler ==
    /\ request = <<>>
    /\ recIdx = 0
    /\ expMetricsReqs = <<>>
    /\ todo = <<>>
    /\ newMetrics = <<>>
    /\ associatorsPerNamespace = <<>>
    /\ grpcClient = FALSE
    /\ responseRecords = <<>>
    /\ returned = NoReturn
    /\ exported = <<>>
    /\ visited = <<>>

CacheInit ==
    /\ cfg \in {Config(cr, TRUE, en, "pass_through", FALSE, TRUE) : cr \in BOOLEAN, en \in BOOLEAN}
    /\ now = 0
    /\ files = [ns \in SupportedNamespaces |-> NoFile]
    /\ invocation = 1
    /\ pc = "enhance"
    /\ resourcesPerNamespace = <<>>
    /\ lastGet = NoGet
    /\ discoveryCalls = [ns \in SupportedNamespaces |-> 0]
    /\ fetchedOK = {}
    /\ IdleHandler
    /\ procs = <<>>
    /\ decoder = NoDecoder
    /\ call = NoCall

\* one lookup, for a data point of namespace ns
CacheGet ==
    /\ pc = "enhance"
    /\ lastGet.n < MaxGets
    /\ \E ns \in SupportedNamespaces :
         \E disc \in DiscoveryInputs(resourcesPerNamespace, ns),
            io \in FaultInputs(resourcesPerNamespace, ns, cfg) :
            LET look == lookupResources(resourcesPerNamespace, ns, files[ns], now, cfg, disc, io)
            IN  /\ resourcesPerNamespace' = look.cache
                /\ files' = [files EXCEPT ![ns] = look.file]
                /\ lastGet' = GetRecord(ns, disc, look, lastGet.n + 1)
                /\ discoveryCalls' = [discoveryCalls EXCEPT ![ns] = @ + look.called]
                /\ fetchedOK' = fetchedOK \cup FetchedNow(ns, disc, look)
                /\ pc' = IF look.outcome = "abort" THEN "done" ELSE pc
    /\ UNCHANGED <<cfg, now, invocation, request, recIdx, expMetricsReqs, todo, newMetrics,
                   associatorsPerNamespace, grpcClient, responseRecords, returned, exported,
                   visited, procs, decoder, call>>

\* the invocation ends and the next one starts with an empty in-memory map
CacheInvoke ==
    /\ invocation < MaxInvocations
    /\ invocation' = invocation + 1
    /\ pc' = "enhance"
    /\ resourcesPerNamespace' = <<>>
    /\ lastGet' = NoGet
    /\ discoveryCalls' = [ns \in SupportedNamespaces |-> 0]
    /\ UNCHANGED <<cfg, now, files, fetchedOK, request, recIdx, expMetricsReqs, todo,
                   newMetrics, associatorsPerNamespace, grpcClient, responseRecords, returned,
                   exported, visited, procs, decoder, call>>

CacheNext == CacheGet \/ CacheInvoke \/ Tick

SpecCache == CacheInit /\ [][CacheNext]_vars

(***************************************************************************)
(* Properties of the resource cache (SpecCache).                           *)
(***************************************************************************)
\* the errors of the file operations
IOErrors ==
    {"open: permission denied", "stat: input/output error", "create: permission denied",
     "write: no space left on device", "read: input/output error",
     "close: input/output error"}

\* the contents a completed refresh leaves in a file
ValidEntries ==
    {jsonMarshal(rs) : rs \in {<<>>} \cup UNION {ResourceLists(ns) : ns \in SupportedNamespaces}}

\* a step that performs a lookup
IsLookup == lastGet'.n = lastGet.n + 1

FetchSucceeded(g) == g.called > 0 /\ g.disc.err \in {NoErr, ErrExpectedToFindResources}

FetchFailed(g) == g.called > 0 /\ g.disc.err \notin {NoErr, ErrExpectedToFindResources}

C1_Step ==
    (IsLookup /\ cfg.fileCacheEnabled) =>
        LET g == lastGet'
            ns == g.namespace
            f == files[ns]
            inMemory == ns \in DOMAIN resourcesPerNamespace
            stale == now > f.mtime + cfg.fileCacheExpiration
        IN  /\ inMemory =>
                /\ ~g.opened /\ g.called = 0 /\ g.err = NoErr
                /\ g.resources = resourcesPerNamespace[ns]
                /\ files' = files
            /\ (~inMemory /\ f.exists /\ ~stale /\ f.content \in ValidEntries
                    /\ g.err \notin IOErrors) =>
                /\ g.opened /\ g.called = 0 /\ g.err = NoErr
                /\ jsonMarshal(g.resources) = f.content
                /\ resourcesPerNamespace'[ns] = g.resources
                /\ files' = files
            /\ (~inMemory /\ (~f.exists \/ stale) /\ g.err \notin IOErrors) =>
                /\ g.opened /\ g.called = 1
                /\ FetchSucceeded(g) =>
                    /\ g.err = NoErr
                    /\ g.resources = g.disc.resources
                    /\ resourcesPerNamespace'[ns] = g.resources
                    /\ files'[ns] = [exists |-> TRUE, mtime |-> now,
                                     content |-> jsonMarshal(g.disc.resources)]

\* C1: a lookup is answered from the in-memory map without touching storage or
\* discovery; else from a persisted entry that is not stale, without calling
\* discovery; else (entry absent or stale) discovery is called once and its result
\* replaces the persisted entry and is returned.
C1_GetContract == [][C1_Step]_vars

\* C1 witness: a second invocation was served from the persisted entry
C1_Witness ==
    /\ invocation = 2 /\ lastGet.n > 0 /\ ~lastGet.hit /\ lastGet.opened
    /\ lastGet.called = 0 /\ lastGet.err = NoErr /\ lastGet.resources # <<>>

C2_Step ==
    (IsLookup /\ cfg.fileCacheEnabled) =>
        LET g == lastGet'
            ns == g.namespace
            f == files[ns]
            stale == now > f.mtime + cfg.fileCacheExpiration
        IN  (ns \notin DOMAIN resourcesPerNamespace /\ f.exists /\ ~stale
                /\ f.content \notin ValidEntries /\ g.err \notin IOErrors) =>
                /\ g.called = 1
                /\ g.err \in {NoErr, g.disc.err}
                /\ FetchSucceeded(g) => g.resources = g.disc.resources

\* C2: a persisted entry that is present and not stale but does not parse is
\* treated as absent: the lookup fetches afresh and returns the fetch's result,
\* never an error of its own.
C2_CorruptEntryRefetched == [][C2_Step]_vars

C3_Amended_Step ==
    (IsLookup /\ cfg.fileCacheEnabled) =>
        LET g == lastGet'
            ns == g.namespace
            f == files[ns]
        IN  (ns \notin DOMAIN resourcesPerNamespace /\ f.exists /\ g.err \notin IOErrors) =>
                /\ now > f.mtime + cfg.fileCacheExpiration => g.called = 1
                /\ now <= f.mtime + cfg.fileCacheExpiration => g.called = 0 /\ files' = files

\* C3 (amended): an entry written at t0 with TTL d is refreshed by every access
\* at t > t0+d and served from storage, without a fetch, at every t <= t0+d.
C3_StaleOnlyAfterTTL == [][C3_Amended_Step]_vars

\* C3 witness: an access exactly at t0+d was served from storage
C3_Witness ==
    /\ lastGet.n > 0 /\ ~lastGet.hit /\ lastGet.opened /\ lastGet.called = 0
    /\ lastGet.err = NoErr
    /\ files[lastGet.namespace].mtime + cfg.fileCacheExpiration = now

C3_Original_Step ==
    (IsLookup /\ cfg.fileCacheEnabled) =>
        LET g == lastGet'
            ns == g.namespace
            f == files[ns]
        IN  (ns \notin DOMAIN resourcesPerNamespace /\ f.exists /\ g.err \notin IOErrors) =>
                /\ now >= f.mtime + cfg.fileCacheExpiration => g.called = 1
                /\ now < f.mtime + cfg.fileCacheExpiration => g.called = 0

\* C3 as claimed: refresh at every t >= t0+d, served from storage at t < t0+d
C3_StaleAtTTL == [][C3_Original_Step]_vars

C5_Written ==
    \A ns \in SupportedNamespaces :
        (files[ns].exists \/ ns \in DOMAIN resourcesPerNamespace) => ns \in fetchedOK

C5_Step ==
    (IsLookup /\ FetchFailed(lastGet')) =>
        /\ files' = files
        /\ resourcesPerNamespace' = resourcesPerNamespace

\* C5: a namespace has an entry, in memory or in storage, only after a discovery
\* fetch for it succeeded, and a failed fetch changes neither.
C5_NoEntryBeforeFetch == [](C5_Written) /\ [][C5_Step]_vars

\* C5 witness: a fetch failed while a (stale) persisted entry existed
C5_Witness ==
    /\ lastGet.n > 0 /\ lastGet.called = 1 /\ lastGet.disc.err = ErrDiscovery
    /\ files[lastGet.namespace].exists

(***************************************************************************)
(* maxdimassociator of the exporter library.  The dimension a service's    *)
(* regexps extract from an ARN is given by table; a mapping exists for a   *)
(* regexp only when some resource matched it.                              *)
(***************************************************************************)
ServiceDimension(ns) == IF ns = "AWS/EC2" THEN "InstanceId" ELSE "BucketName"

ResourceDimensionValue(r) ==
    CASE r.ARN = "arn:aws:ec2:i-1" -> "i-1"
      [] r.ARN = "arn:aws:ec2:i-2" -> "i-2"
      [] r.ARN = "arn:aws:s3:::logs" -> "logs"
      [] OTHER -> ""

NewAssociator(namespace, resources) ==
    [dimension |-> ServiceDimension(namespace), resources |-> resources]

\* (resource, skip): no dimensions or no mapping gives (nil, false); a mapping
\* without a matching resource gives (nil, true)
AssociateMetricToResource(asc, cwm) ==
    LET values == {cwm.Dimensions[i].Value : i \in
                      {j \in 1..Len(cwm.Dimensions) : cwm.Dimensions[j].Name = asc.dimension}}
        matching == {i \in 1..Len(asc.resources) :
                        ResourceDimensionValue(asc.resources[i]) \in values}
    IN  IF cwm.Dimensions = <<>> \/ asc.resources = <<>> \/ values = {}
        THEN [r |-> NilResource, skip |-> FALSE]
        ELSE IF matching # {}
        THEN [r |-> asc.resources[CHOOSE i \in matching : \A j \in matching : i >= j],
              skip |-> FALSE]
        ELSE [r |-> NilResource, skip |-> TRUE]

(***************************************************************************)
(* The handler: lambdaHandler over the records of one Firehose event.      *)
(***************************************************************************)
RECURSIVE Flatten(_)
Flatten(ss) == IF ss = <<>> THEN <<>> ELSE ss[1] \o Flatten(Tail(ss))

Iteration(kind, i, j, k, m, d) ==
    [kind |-> kind, req |-> i, rm |-> j, sm |-> k, metric |-> m, dp |-> d]

\* the iterations of the loops of enhanceRequests, in order: one per data
\* point of a summary, one per other metric, one at the end of every group
metricIterations(i, j, k, m, metric) ==
    IF metric.Type = "Summary"
    THEN [d \in 1..Len(metric.DataPoints) |-> Iteration("dp", i, j, k, m, d)]
    ELSE <<Iteration("other", i, j, k, m, 0)>>

scopeIterations(i, j, k, sm) ==
    Flatten([m \in 1..Len(sm.Metrics) |-> metricIterations(i, j, k, m, sm.Metrics[m])])
    \o <<Iteration("endscope", i, j, k, 0, 0)>>

resourceIterations(i, j, rm) ==
    Flatten([k \in 1..Len(rm.ScopeMetrics) |-> scopeIterations(i, j, k, rm.ScopeMetrics[k])])

requestIterations(i, req) ==
    Flatten([j \in 1..Len(req.ResourceMetrics) |-> resourceIterations(i, j, req.ResourceMetrics[j])])

Iterations(reqs) == Flatten([i \in 1..Len(reqs) |-> requestIterations(i, reqs[i])])

\* base64.StdEncoding.Encode: every group of three bytes becomes four
\* characters, each depending on one or two neighbouring bytes; "=" pads
base64Encode(data) ==
    [i \in 1..(4 * ((Len(data) + 2) \div 3)) |->
        LET g == 3 * ((i - 1) \div 4)
            a == data[g + 1]
            b == IF g + 2 <= Len(data) THEN data[g + 2] ELSE ""
            c == IF g + 3 <= Len(data) THEN data[g + 3] ELSE ""
        IN  CASE (i - 1) % 4 = 0 -> "1:" \o a
              [] (i - 1) % 4 = 1 -> "2:" \o a \o "|" \o b
              [] (i - 1) % 4 = 2 -> IF g + 2 <= Len(data) THEN "3:" \o b \o "|" \o c ELSE "="
              [] OTHER -> IF g + 3 <= Len(data) THEN "4:" \o c ELSE "="]

buildResponseRecord(recordID, data) ==
    [RecordID |-> recordID, Result |-> "Ok", Data |-> base64Encode(data)]

\* an undecodable record marked as failed
passThroughRecord_ProcessingFailed(record) ==
    [RecordID |-> record.RecordID, Result |-> "ProcessingFailed", Data |-> base64Encode(record.Data)]

passThroughRecord(record) == buildResponseRecord(record.RecordID, record.Data)

Return_KeepsRecords(records, err, at) ==
    [set |-> TRUE, isNil |-> FALSE, Records |-> responseRecords, err |-> err, at |-> at]

\* what lambdaHandler returns: (response, nil) or (nil, err)
Return(records, err, at) ==
    [set |-> TRUE, isNil |-> err # NoErr, Records |-> records, err |-> err, at |-> at]

\* the records an event is made of
Record(id, data) == [RecordID |-> id, Data |-> data]

\* a record cut inside the body of its only message
dataBad == <<"3", "rm">>

\* a record whose second message has a body that is no request, mid-stream
dataGarbled == WriteDelimited(reqS3) \o <<"2", "x", "y">> \o WriteDelimited(reqS3)

\* a record whose length prefix never ends within five bytes
dataBadPrefix == <<"255", "255", "255", "255", "255", "1">> \o WriteDelimited(reqS3)

FullBatches ==
    {<<Record("r1", WriteDelimited(reqEC2)), Record("r2", WriteDelimited(reqMixed)),
       Record("r3", WriteDelimited(reqS3))>>,
     <<Record("r1", WriteDelimited(reqMixed)),
       Record("r2", WriteDelimited(reqS3) \o WriteDelimited(reqEC2)),
       Record("r3", dataBad)>>,
     <<Record("r1", WriteDelimited(reqS3)), Record("r2", dataGarbled),
       Record("r3", WriteDelimited(reqEC2))>>,
     <<Record("r1", dataBadPrefix), Record("r2", WriteDelimited(reqS3)),
       Record("r3", dataBad)>>,
     <<Record("r1", WriteDelimited(reqRegions)), Record("r2", WriteDelimited(reqS3)),
       Record("r3", WriteDelimited(reqEC2))>>}

Batches == {Prefix(b, MaxRecords) : b \in FullBatches}

\* the cache files an invocation can find: none, or the entry an earlier
\* invocation left for a namespace
InitialFiles ==
    {[ns \in SupportedNamespaces |-> NoFile],
     [ns \in SupportedNamespaces |->
        IF ns = "AWS/EC2" THEN fWrite(osCreate(NoFile, 0), jsonMarshal(<<ec2a, ec2b>>), 0)
        ELSE NoFile]}

\* the configurations the handler is run under: both failure policies and both
\* metric shapes, with the cache file, the output mode and the collector varied
HandlerConfigs ==
    {Config(cr, ce, o.cache, o.mode, y, o.endpoint) :
        cr \in BOOLEAN, ce \in BOOLEAN, y \in BOOLEAN,
        o \in {[cache |-> TRUE, mode |-> "pass_through", endpoint |-> TRUE],
               [cache |-> FALSE, mode |-> "enhanced", endpoint |-> TRUE],
               [cache |-> TRUE, mode |-> "enhanced", endpoint |-> FALSE]}}

Init ==
    /\ cfg \in HandlerConfigs
    /\ now = 0
    /\ files \in InitialFiles
    /\ fetchedOK = {ns \in SupportedNamespaces : files[ns].exists}
    /\ invocation = 1
    /\ pc = "start"
    /\ request \in Batches
    /\ recIdx = 1
    /\ expMetricsReqs = <<>>
    /\ todo = <<>>
    /\ newMetrics = <<>>
    /\ resourcesPerNamespace = <<>>
    /\ associatorsPerNamespace = <<>>
    /\ grpcClient = FALSE
    /\ responseRecords = <<>>
    /\ returned = NoReturn
    /\ exported = <<>>
    /\ lastGet = NoGet
    /\ discoveryCalls = [ns \in SupportedNamespaces |-> 0]
    /\ visited = <<>>
    /\ procs = <<>>
    /\ decoder = NoDecoder
    /\ call = NoCall

ConnOutcomes(c) == IF c.endpoint THEN {NoErr, "context deadline exceeded"} ELSE {NoErr}

\* the head of lambdaHandler: configuration, clients, the gRPC connection
Start ==
    /\ pc = "start"
    /\ \E connErr \in ConnOutcomes(cfg) :
         IF connErr # NoErr /\ ~cfg.continueOnExportFailure
         THEN /\ returned' = Return(<<>>, connErr, "conn")
              /\ pc' = "done"
              /\ grpcClient' = FALSE
         ELSE /\ grpcClient' = (cfg.endpoint /\ connErr = NoErr)
              /\ pc' = "record"
              /\ returned' = returned
    /\ UNCHANGED <<cvars, request, recIdx, expMetricsReqs, todo, newMetrics,
                   associatorsPerNamespace, responseRecords, exported, visited, procs, decoder, call>>

\* the top of the record loop: rawDataIntoRequests and its failure policy
DecodeRecord ==
    /\ pc = "record"
    /\ recIdx <= Len(request)
    /\ LET record == request[recIdx]
           d == rawDataIntoRequests(record.Data)
       IN  IF d.err # NoErr
           THEN IF ~cfg.continueOnExportFailure
                THEN /\ returned' = Return(<<>>, d.err, "decode")
                     /\ pc' = "done"
                     /\ UNCHANGED <<responseRecords, recIdx, expMetricsReqs, todo, visited>>
                ELSE /\ responseRecords' = Append(responseRecords, passThroughRecord(record))
                     /\ recIdx' = recIdx + 1
                     /\ UNCHANGED <<returned, pc, expMetricsReqs, todo, visited>>
           ELSE /\ expMetricsReqs' = d.requests
                /\ todo' = Iterations(d.requests)
                /\ visited' = <<>>
                /\ pc' = "enhance"
                /\ UNCHANGED <<returned, responseRecords, recIdx>>
    /\ UNCHANGED <<cvars, request, newMetrics, associatorsPerNamespace, grpcClient, exported,
                   procs, decoder, call>>

Visit(it, outcome) == [kind |-> it.kind, outcome |-> outcome]

\* one iteration of the data point loop of enhanceRequests
EnhanceDataPoint ==
    /\ pc = "enhance"
    /\ todo # <<>>
    /\ Head(todo).kind = "dp"
    /\ LET it == Head(todo)
           rm == expMetricsReqs[it.req].ResourceMetrics[it.rm]
           metric == rm.ScopeMetrics[it.sm].Metrics[it.metric]
           dp == metric.DataPoints[it.dp]
           attrs == dp.Attributes
           cwm == buildCloudWatchMetricFromKeyValues(attrs)
           ra == extractResourceAttributes(rm)
           effectiveRegion == IF ra.resourceRegion = "" THEN cfg.region ELSE ra.resourceRegion
           ns == cwm.Namespace
       IN  IF cwm.MetricName = "" \/ ns = ""
           THEN /\ visited' = Append(visited, Visit(it, "incomplete"))
                /\ todo' = Tail(todo)
                /\ UNCHANGED <<pc, returned, expMetricsReqs, newMetrics, resourcesPerNamespace,
                               associatorsPerNamespace, files, lastGet, discoveryCalls, fetchedOK>>
           ELSE IF ns \notin SupportedNamespaces
           THEN /\ visited' = Append(visited, Visit(it, "unsupported"))
                /\ todo' = Tail(todo)
                /\ UNCHANGED <<pc, returned, expMetricsReqs, newMetrics, resourcesPerNamespace,
                               associatorsPerNamespace, files, lastGet, discoveryCalls, fetchedOK>>
           ELSE \E disc \in DiscoveryInputs(resourcesPerNamespace, ns),
                   io \in FaultInputs(resourcesPerNamespace, ns, cfg) :
                LET look == lookupResources(resourcesPerNamespace, ns, files[ns], now, cfg, disc, io)
                    asc == IF ns \in DOMAIN associatorsPerNamespace
                           THEN associatorsPerNamespace[ns]
                           ELSE NewAssociator(ns, look.cache[ns])
                    a == AssociateMetricToResource(asc, cwm)
                    yaceLabels == buildYACELabelsKeyValue(cwm, a.r, a.skip, cfg.staticLabels,
                                      cfg.defaultLabels, cfg.labelsSnakeCase, cfg.exportedTags,
                                      effectiveRegion, ra.accountID)
                    statistic == IF attrValue(attrs, "Statistic") = ""
                                 THEN attrValue(attrs, "statistic")
                                 ELSE attrValue(attrs, "Statistic")
                IN  /\ files' = [files EXCEPT ![ns] = look.file]
                    /\ lastGet' = GetRecord(ns, disc, look, lastGet.n + 1)
                    /\ discoveryCalls' = [discoveryCalls EXCEPT ![ns] = @ + look.called]
                    /\ fetchedOK' = fetchedOK \cup FetchedNow(ns, disc, look)
                    /\ resourcesPerNamespace' = look.cache
                    /\ IF look.outcome = "skip"
                       THEN /\ visited' = Append(visited, Visit(it, "fetch failed"))
                            /\ todo' = Tail(todo)
                            /\ UNCHANGED <<pc, returned, expMetricsReqs, newMetrics,
                                           associatorsPerNamespace>>
                       ELSE IF look.outcome = "abort"
                       THEN /\ visited' = Append(visited, Visit(it, "aborted"))
                            /\ returned' = Return(<<>>, look.err, "enhance")
                            /\ pc' = "done"
                            /\ UNCHANGED <<todo, expMetricsReqs, newMetrics, associatorsPerNamespace>>
                       ELSE /\ visited' = Append(visited, Visit(it, "enriched"))
                            /\ todo' = Tail(todo)
                            /\ associatorsPerNamespace' = (ns :> asc) @@ associatorsPerNamespace
                            /\ IF cfg.yaceCompatMode
                               THEN /\ newMetrics' = newMetrics
                                        \o summaryToGauges(cwm, dp, yaceLabels, cfg.yaceCompatStats)
                                    /\ UNCHANGED expMetricsReqs
                               ELSE /\ expMetricsReqs' =
                                        [expMetricsReqs EXCEPT
                                           ![it.req].ResourceMetrics[it.rm].ScopeMetrics[it.sm].Metrics[it.metric] =
                                              [@ EXCEPT !.Name = BuildMetricName(ns, cwm.MetricName, statistic),
                                                        !.DataPoints[it.dp].Attributes = yaceLabels]]
                                    /\ UNCHANGED newMetrics
                            /\ UNCHANGED <<pc, returned>>
    /\ UNCHANGED <<cfg, now, invocation, request, recIdx, grpcClient, responseRecords, exported,
                   procs, decoder, call>>

\* the default branch of the type switch: a metric that is not a summary
EnhanceOther ==
    /\ pc = "enhance"
    /\ todo # <<>>
    /\ Head(todo).kind = "other"
    /\ LET it == Head(todo)
           metric == expMetricsReqs[it.req].ResourceMetrics[it.rm].ScopeMetrics[it.sm].Metrics[it.metric]
       IN  /\ newMetrics' = IF cfg.yaceCompatMode THEN Append(newMetrics, metric) ELSE newMetrics
           /\ visited' = Append(visited, Visit(it, "kept"))
    /\ todo' = Tail(todo)
    /\ UNCHANGED <<cvars, pc, request, recIdx, expMetricsReqs, associatorsPerNamespace, grpcClient,
                   responseRecords, returned, exported, procs, decoder, call>>

\* the new metrics added to the metrics of the group
replaceMetrics_Appends(reqs, it, metrics) ==
    [reqs EXCEPT ![it.req].ResourceMetrics[it.rm].ScopeMetrics[it.sm].Metrics = @ \o metrics]

\* the metrics of the group left as they are when no metric was collected
replaceMetrics_KeepsWhenEmpty(reqs, it, metrics) ==
    IF metrics = <<>> THEN reqs
    ELSE [reqs EXCEPT ![it.req].ResourceMetrics[it.rm].ScopeMetrics[it.sm].Metrics = metrics]

\* rm.ScopeMetrics[smIdx].Metrics = newMetrics
replaceMetrics(reqs, it, metrics) ==
    [reqs EXCEPT ![it.req].ResourceMetrics[it.rm].ScopeMetrics[it.sm].Metrics = metrics]

\* the end of a metric group: its metrics are replaced in YACE mode
EndScope ==
    /\ pc = "enhance"
    /\ todo # <<>>
    /\ Head(todo).kind = "endscope"
    /\ LET it == Head(todo)
       IN  /\ expMetricsReqs' =
                IF cfg.yaceCompatMode
                THEN replaceMetrics(expMetricsReqs, it, newMetrics)
                ELSE expMetricsReqs
           /\ visited' = Append(visited, Visit(it, "end"))
    /\ newMetrics' = <<>>
    /\ todo' = Tail(todo)
    /\ UNCHANGED <<cvars, pc, request, recIdx, associatorsPerNamespace, grpcClient,
                   responseRecords, returned, exported, procs, decoder, call>>

\* enhanceRequests returns nil
EnhanceReturn ==
    /\ pc = "enhance"
    /\ todo = <<>>
    /\ pc' = "export"
    /\ UNCHANGED <<cvars, request, recIdx, expMetricsReqs, todo, newMetrics,
                   associatorsPerNamespace, grpcClient, responseRecords, returned, exported,
                   visited, procs, decoder, call>>

\* exportRequests: the requests are sent in order until one fails
ExportRecord ==
    /\ pc = "export"
    /\ IF ~grpcClient
       THEN /\ pc' = "respond"
            /\ UNCHANGED <<exported, returned>>
       ELSE \E failAt \in 0..Len(expMetricsReqs) :
              /\ exported' = exported \o
                    Prefix(expMetricsReqs, IF failAt = 0 THEN Len(expMetricsReqs) ELSE failAt - 1)
              /\ IF failAt # 0 /\ ~cfg.continueOnExportFailure
                 THEN /\ returned' = Return(<<>>, "rpc error: code = Unavailable", "export")
                      /\ pc' = "done"
                 ELSE /\ pc' = "respond"
                      /\ returned' = returned
    /\ UNCHANGED <<cvars, request, recIdx, expMetricsReqs, todo, newMetrics,
                   associatorsPerNamespace, grpcClient, responseRecords, visited, procs, decoder, call>>

\* proto.Marshal of the requests in requestsIntoRawData can return an error
EncodeOutcomes == {NoErr, "proto: cannot marshal"}

\* the response record of the record: the enhanced or the original data, or
\* the record passed through when the enhanced requests fail to encode
RespondRecord ==
    /\ pc = "respond"
    /\ \E encErr \in (IF cfg.outputMode = "enhanced" THEN EncodeOutcomes ELSE {NoErr}) :
          LET record == request[recIdx]
              responseData == IF cfg.outputMode = "enhanced"
                              THEN requestsIntoRawData(expMetricsReqs)
                              ELSE record.Data
          IN  IF encErr # NoErr /\ ~cfg.continueOnExportFailure
              THEN /\ returned' = Return(<<>>, encErr, "encode")
                   /\ pc' = "done"
                   /\ UNCHANGED <<responseRecords, recIdx, expMetricsReqs>>
              ELSE /\ responseRecords' = Append(responseRecords,
                          IF encErr # NoErr THEN passThroughRecord(record)
                          ELSE buildResponseRecord(record.RecordID, responseData))
                   /\ recIdx' = recIdx + 1
                   /\ expMetricsReqs' = <<>>
                   /\ pc' = "record"
                   /\ returned' = returned
    /\ UNCHANGED <<cvars, request, todo, newMetrics, associatorsPerNamespace, grpcClient,
                   exported, visited, procs, decoder, call>>

\* the end of lambdaHandler: the response with every record
ReturnResponse ==
    /\ pc = "record"
    /\ recIdx > Len(request)
    /\ returned' = Return(responseRecords, NoErr, "end")
    /\ pc' = "done"
    /\ UNCHANGED <<cvars, request, recIdx, expMetricsReqs, todo, newMetrics,
                   associatorsPerNamespace, grpcClient, responseRecords, exported, visited,
                   procs, decoder, call>>

Next ==
    \/ Start
    \/ DecodeRecord
    \/ EnhanceDataPoint
    \/ EnhanceOther
    \/ EndScope
    \/ EnhanceReturn
    \/ ExportRecord
    \/ RespondRecord
    \/ ReturnResponse

Spec == Init /\ [][Next]_vars

(***************************************************************************)
(* Properties of the handler (Spec).                                       *)
(***************************************************************************)
\* the data point the running iteration is about, after the step
DataPointAfter(it) ==
    expMetricsReqs'[it.req].ResourceMetrics[it.rm].ScopeMetrics[it.sm].Metrics[it.metric].DataPoints[it.dp]

\* the requests of the record being processed, as decoded
DecodedRecord == rawDataIntoRequests(request[recIdx].Data).requests

C6_Step ==
    /\ (IsLookup /\ lastGet'.err # NoErr) =>
          IF cfg.continueOnResourceFailure
          THEN /\ pc' = "enhance" /\ ~returned'.set
               /\ todo' = Tail(todo)
               /\ visited' = Append(visited, Visit(Head(todo), "fetch failed"))
               /\ expMetricsReqs' = expMetricsReqs /\ newMetrics' = newMetrics
          ELSE /\ pc' = "done"
               /\ returned' = Return(<<>>, lastGet'.err, "enhance")
               /\ expMetricsReqs' = expMetricsReqs /\ newMetrics' = newMetrics
    /\ pc = "done" => UNCHANGED <<visited, expMetricsReqs, lastGet, discoveryCalls>>

C6_Processed ==
    /\ cfg.continueOnResourceFailure => returned.at # "enhance"
    /\ pc = "export" =>
          /\ todo = <<>>
          /\ Len(visited) = Len(Iterations(DecodedRecord))
          /\ \A i \in 1..Len(visited) : visited[i].outcome # "aborted"

\* C6: with continue-on-failure set, a failed resource lookup skips its data
\* point only: the loops go on, every iteration of the record is run and
\* enhanceRequests returns no error; with it unset, the first failed lookup is
\* returned at once and nothing is processed after it.
C6_FailurePolicy == [](C6_Processed) /\ [][C6_Step]_vars

\* C6 witness: enhanceRequests returned after a lookup failed for one data point
\* and a later data point was enriched
C6_Witness ==
    /\ pc = "export"
    /\ \E i, j \in 1..Len(visited) :
          i < j /\ visited[i].outcome = "fetch failed" /\ visited[j].outcome = "enriched"

IsAbort == ~returned.set /\ returned'.set /\ returned'.err # NoErr

C7_Step ==
    /\ IsAbort =>
          /\ pc' = "done"
          /\ returned'.isNil /\ returned'.Records = <<>>
          /\ responseRecords' = responseRecords /\ recIdx' = recIdx
          /\ Len(exported') >= Len(exported) /\ Prefix(exported', Len(exported)) = exported
          /\ returned'.at = "enhance" => ~cfg.continueOnResourceFailure
          /\ returned'.at \in {"conn", "decode", "export", "encode"} => ~cfg.continueOnExportFailure
    /\ pc = "done" => UNCHANGED <<returned, responseRecords, exported, expMetricsReqs, recIdx>>

\* C7 (amended): under an abort policy the first unrecoverable error ends the
\* invocation: lambdaHandler returns the error and no response at all, so the
\* response records built for the earlier records are not delivered; what was
\* exported for the earlier records stays exported, and nothing is processed
\* after the error.
C7_AbortDiscardsResponse == [][C7_Step]_vars

\* C7 witness: the second record's enrichment aborted after the first record
\* was exported and its response record built
C7_Witness ==
    /\ returned.set /\ returned.err # NoErr /\ returned.at = "enhance"
    /\ recIdx = 2 /\ Len(responseRecords) = 1 /\ exported # <<>>

\* C7 as claimed: the response records of the records processed before the
\* failing one are returned as if the failing record had not been in the batch
C7_EarlierRecordsUnaffected ==
    (returned.set /\ returned.err # NoErr) => returned.Records = responseRecords

C8_Step ==
    (IsLookup /\ lastGet'.called > 0 /\ lastGet'.err \notin IOErrors) =>
        LET g == lastGet'
            ns == g.namespace
        IN  /\ g.disc.err = ErrExpectedToFindResources =>
                /\ g.err = NoErr /\ g.resources = <<>> /\ g.outcome = "ok"
                /\ resourcesPerNamespace'[ns] = <<>>
                /\ cfg.fileCacheEnabled =>
                      files'[ns] = [exists |-> TRUE, mtime |-> now, content |-> jsonMarshal(<<>>)]
                /\ IF cfg.yaceCompatMode
                   THEN /\ Len(newMetrics') > Len(newMetrics)
                        /\ \A i \in (Len(newMetrics) + 1)..Len(newMetrics') :
                              attrValue(newMetrics'[i].DataPoints[1].Attributes, "name") = "global"
                   ELSE attrValue(DataPointAfter(Head(todo)).Attributes, "name") = "global"
            /\ g.disc.err \notin {NoErr, ErrExpectedToFindResources} =>
                /\ g.err = g.disc.err /\ g.outcome # "ok"
                /\ ns \notin DOMAIN resourcesPerNamespace'
                /\ files' = files
                /\ expMetricsReqs' = expMetricsReqs /\ newMetrics' = newMetrics

\* C8: the discovery outcome "expected to find resources" is a success with an
\* empty resource set: the lookup returns no error, the empty set is kept for the
\* namespace in memory (and on file when the file cache is enabled) and the data
\* point is enriched with name = global; any other discovery error is a failed
\* lookup.
C8_NotFoundIsEmptySuccess == [][C8_Step]_vars

\* C8 witness: a data point was enriched after discovery found no resources and
\* the empty set was written to the cache file
C8_Witness ==
    /\ lastGet.called = 1 /\ lastGet.disc.err = ErrExpectedToFindResources
    /\ lastGet.err = NoErr /\ cfg.fileCacheEnabled
    /\ files[lastGet.namespace].content = jsonMarshal(<<>>)
    /\ visited # <<>> /\ visited[Len(visited)].outcome = "enriched"

C9_Step ==
    /\ IsLookup =>
          LET g == lastGet'
          IN  /\ g.called <= 1
              /\ discoveryCalls' = [discoveryCalls EXCEPT ![g.namespace] = @ + g.called]
              /\ FetchFailed(g) =>
                    /\ g.err = g.disc.err
                    /\ \/ /\ cfg.continueOnResourceFailure
                          /\ todo' = Tail(todo) /\ ~returned'.set
                       \/ /\ ~cfg.continueOnResourceFailure
                          /\ returned' = Return(<<>>, g.disc.err, "enhance") /\ pc' = "done"
    /\ ~IsLookup => discoveryCalls' = discoveryCalls

RaceNamespace == "AWS/EC2"

Procs == {1, 2}

Proc(at, refresh, b, resources, err, wrote) ==
    [pc |-> at, refresh |-> refresh, b |-> b, resources |-> resources, err |-> err,
     wrote |-> wrote]

RaceInit ==
    /\ cfg = Config(TRUE, TRUE, TRUE, "pass_through", FALSE, TRUE)
    /\ now = 0
    /\ files \in InitialFiles
    /\ fetchedOK = {ns \in SupportedNamespaces : files[ns].exists}
    /\ invocation = 1
    /\ pc = "enhance"
    /\ resourcesPerNamespace = <<>>
    /\ lastGet = NoGet
    /\ discoveryCalls = [ns \in SupportedNamespaces |-> 0]
    /\ IdleHandler
    /\ procs = [p \in Procs |-> Proc("open", FALSE, <<>>, <<>>, NoErr, FALSE)]
    /\ decoder = NoDecoder
    /\ call = NoCall

RaceUnchanged ==
    UNCHANGED <<hvars, cfg, now, invocation, resourcesPerNamespace, lastGet, fetchedOK, decoder,
                call>>

\* os.Open and f.Stat: the entry is absent, expired or to be read
RaceOpen(p) ==
    /\ procs[p].pc = "open"
    /\ LET file == files[RaceNamespace]
           notExist == ~file.exists
           isExpired == IF notExist THEN FALSE
                        ELSE IsExpired(file.mtime, cfg.fileCacheExpiration, now)
       IN  procs' = [procs EXCEPT ![p] =
                        IF notExist \/ isExpired
                        THEN Proc("fetch", TRUE, <<>>, <<>>, NoErr, FALSE)
                        ELSE Proc("read", FALSE, <<>>, <<>>, NoErr, FALSE)]
    /\ UNCHANGED <<files, discoveryCalls>>
    /\ RaceUnchanged

\* retrieveResources and json.Marshal
RaceFetch(p) ==
    /\ procs[p].pc = "fetch"
    /\ \E disc \in DiscoveryOutcomes(RaceNamespace) :
         LET fetched == retrieveResources(disc)
         IN  /\ procs' = [procs EXCEPT ![p] =
                            IF fetched.err # NoErr
                            THEN Proc("done", TRUE, <<>>, <<>>, fetched.err, FALSE)
                            ELSE Proc("create", TRUE, jsonMarshal(fetched.resources),
                                      fetched.resources, NoErr, FALSE)]
             /\ discoveryCalls' = [discoveryCalls EXCEPT ![RaceNamespace] = @ + fetched.calls]
    /\ UNCHANGED files
    /\ RaceUnchanged

\* os.Create: the file is truncated
RaceCreate(p) ==
    /\ procs[p].pc = "create"
    /\ files' = [files EXCEPT ![RaceNamespace] = osCreate(@, now)]
    /\ procs' = [procs EXCEPT ![p].pc = "write"]
    /\ UNCHANGED discoveryCalls
    /\ RaceUnchanged

\* f.Write(b), at offset 0 of the process's own descriptor
RaceWrite(p) ==
    /\ procs[p].pc = "write"
    /\ files' = [files EXCEPT ![RaceNamespace] = fWrite(@, procs[p].b, now)]
    /\ procs' = [procs EXCEPT ![p].pc = "done", ![p].wrote = TRUE]
    /\ UNCHANGED discoveryCalls
    /\ RaceUnchanged

\* io.ReadAll and json.Unmarshal of an entry judged fresh
RaceRead(p) ==
    /\ procs[p].pc = "read"
    /\ LET parsed == jsonUnmarshal(files[RaceNamespace].content)
       IN  procs' = [procs EXCEPT ![p] =
                        Proc("done", FALSE, files[RaceNamespace].content,
                             IF parsed.err # NoErr THEN <<>> ELSE parsed.resources,
                             parsed.err, FALSE)]
    /\ UNCHANGED <<files, discoveryCalls>>
    /\ RaceUnchanged

RaceTick ==
    /\ \A p \in Procs : procs[p].pc = "open"
    /\ Tick

RaceNext ==
    \/ \E p \in Procs : RaceOpen(p)
    \/ \E p \in Procs : RaceFetch(p)
    \/ \E p \in Procs : RaceCreate(p)
    \/ \E p \in Procs : RaceWrite(p)
    \/ \E p \in Procs : RaceRead(p)
    \/ RaceTick

SpecRace == RaceInit /\ [][RaceNext]_vars

\* C4: when two invocations both refresh the entry of a namespace, the entry
\* afterwards is exactly what one of the two wrote, in every interleaving of
\* their file operations; it is never a mixture and always parses.
C4_LastWriterWins ==
    (\A p \in Procs : procs[p].pc = "done" /\ procs[p].wrote) =>
        /\ files[RaceNamespace].content \in {procs[p].b : p \in Procs}
        /\ jsonUnmarshal(files[RaceNamespace].content).err = NoErr

(***************************************************************************)
(* rawDataIntoRequests on its own, one iteration of its loop per step.     *)
(* The buffer is the encoding of some requests followed by the first cut   *)
(* bytes of the encoding of one more.                                      *)
(***************************************************************************)
RequestLists == {<<>>, <<reqS3>>, <<reqEmpty>>, <<reqS3, reqEC2>>, <<reqBig, reqS3>>}

Decoder(complete, last, cut) ==
    [input |-> requestsIntoRawData(complete) \o Prefix(WriteDelimited(last), cut),
     r |-> requestsIntoRawData(complete) \o Prefix(WriteDelimited(last), cut),
     requests |-> <<>>, err |-> NoErr, state |-> "reading",
     complete |-> complete, cut |-> cut,
     header |-> Len(PutUvarint(Len(protoMarshal(last))))]

DecodeInit ==
    /\ cfg = Config(TRUE, TRUE, TRUE, "pass_through", FALSE, TRUE)
    /\ now = 0
    /\ files = [ns \in SupportedNamespaces |-> NoFile]
    /\ fetchedOK = {}
    /\ invocation = 1
    /\ pc = "record"
    /\ resourcesPerNamespace = <<>>
    /\ lastGet = NoGet
    /\ discoveryCalls = [ns \in SupportedNamespaces |-> 0]
    /\ IdleHandler
    /\ procs = <<>>
    /\ \E complete \in RequestLists, last \in SampleRequests :
         \E cut \in 0..(Len(WriteDelimited(last)) - 1) :
            decoder = Decoder(complete, last, cut)
    /\ call = NoCall

\* one iteration of the loop: pbutil.ReadDelimited and the test of its error
ReadFrame ==
    /\ decoder.state = "reading"
    /\ LET d == ReadDelimited(decoder.r)
       IN  decoder' =
              IF d.err # NoErr
              THEN IF IsEOF(d.err)
                   THEN [decoder EXCEPT !.state = "returned", !.r = d.r]
                   ELSE [decoder EXCEPT !.state = "returned", !.r = d.r, !.requests = <<>>,
                                        !.err = d.err]
              ELSE [decoder EXCEPT !.r = d.r, !.requests = Append(@, d.m)]
    /\ UNCHANGED <<hvars, cvars, procs, call>>

DecodeNext == ReadFrame

SpecDecode == DecodeInit /\ [][DecodeNext]_vars

\* C10: a buffer that ends inside its last record, in the length prefix or in
\* the body, decodes to the complete records before it, with no error.
C10_TruncatedTailIsEOF ==
    (decoder.state = "returned" /\ decoder.cut > 0) =>
        decoder.err = NoErr /\ decoder.requests = decoder.complete

(***************************************************************************)
(* Properties of decoding and of the response (Spec, SpecCodec).           *)
(***************************************************************************)
(* SpecCodec: requestsIntoRawData then rawDataIntoRequests on a batch of   *)
(* requests (TestRequestsRoundTrip).                                       *)
(***************************************************************************)
MaxBatch == 2

\* a request whose attributes hold a value-less entry and a nested list
reqOdd ==
    ExportMetricsServiceRequest(
        <<ResourceMetrics(<<NilKV("empty"), ListKV("outer", <<ListKV("inner", <<StrKV("k", "v")>>)>>)>>,
                          <<ScopeMetrics(<<>>), ScopeMetrics(<<Metric("m", "Gauge", <<>>)>>)>>),
          ResourceMetrics(<<>>, <<>>)>>)

CodecRequests == SampleRequests \cup {reqOdd}

CodecBatches == UNION {[1..n -> CodecRequests] : n \in 0..MaxBatch}

\* the handler and the cache at rest, while one function is called on its own
IdleProgram ==
    /\ cfg = Config(TRUE, TRUE, FALSE, "pass_through", FALSE, TRUE)
    /\ now = 0
    /\ files = [ns \in SupportedNamespaces |-> NoFile]
    /\ invocation = 1
    /\ pc = "idle"
    /\ resourcesPerNamespace = <<>>
    /\ lastGet = NoGet
    /\ discoveryCalls = [ns \in SupportedNamespaces |-> 0]
    /\ fetchedOK = {}
    /\ IdleHandler
    /\ procs = <<>>
    /\ decoder = NoDecoder

CodecCall(state, batch, raw, out) ==
    [fn |-> "codec", state |-> state, batch |-> batch, raw |-> raw, out |-> out]

CodecInit ==
    /\ IdleProgram
    /\ \E batch \in CodecBatches :
          call = CodecCall("input", batch, <<>>, [requests |-> <<>>, err |-> NoErr])

Encode ==
    /\ call.state = "input"
    /\ call' = [call EXCEPT !.state = "encoded", !.raw = requestsIntoRawData(call.batch)]
    /\ UNCHANGED <<hvars, cvars, procs, decoder>>

Decode ==
    /\ call.state = "encoded"
    /\ call' = [call EXCEPT !.state = "decoded", !.out = rawDataIntoRequests(call.raw)]
    /\ UNCHANGED <<hvars, cvars, procs, decoder>>

CodecNext == Encode \/ Decode

SpecCodec == CodecInit /\ [][CodecNext]_vars

\* C12: decoding the encoding of any batch of requests, the empty batch and
\* batches of several requests included, returns no error and a sequence of
\* the same length whose i-th request is the i-th request of the batch.
C12_RoundTrip ==
    call.state = "decoded" =>
        /\ call.out.err = NoErr
        /\ Len(call.out.requests) = Len(call.batch)
        /\ \A i \in 1..Len(call.batch) : call.out.requests[i] = call.batch[i]

\* a batch of two different requests, one of them with a two-byte prefix,
\* has been encoded and decoded
C12_Witness ==
    /\ call.state = "decoded"
    /\ call.batch = <<reqBig, reqOdd>>
    /\ Len(call.raw) > Len(protoMarshal(reqBig)) + Len(protoMarshal(reqOdd)) + 2
    /\ call.out.requests = <<reqBig, reqOdd>>


(***************************************************************************)
(* SpecExpand: summaryToGauges on one summary data point                   *)
(* (TestSummaryToGauges).                                                  *)
(***************************************************************************)
MaxQuantiles == 2

ExpandPairs == {QuantileValue(q, Float(v, 1)) : q \in {0, 500, 1000}, v \in {2, 7}}

ExpandQuantileValues == UNION {[1..n -> ExpandPairs] : n \in 0..MaxQuantiles}

ExpandStats == SUBSET {"SampleCount", "Sum", "Average", "Maximum", "p50"}

ExpandDataPoints ==
    {DataPoint(ec2Attrs, 1, 2, count, Float(sum, 1), qvs, Float(0, 1)) :
        count \in {0, 4}, sum \in {0, 50}, qvs \in ExpandQuantileValues}

expandLabels == <<StrKV("namespace", "AWS/EC2"), StrKV("name", "arn:aws:ec2:i-1")>>

ExpandCall(state, dp, enabledStats, out) ==
    [fn |-> "summaryToGauges", state |-> state, dp |-> dp, enabledStats |-> enabledStats,
     out |-> out]

ExpandInit ==
    /\ IdleProgram
    /\ \E dp \in ExpandDataPoints, enabledStats \in ExpandStats :
          call = ExpandCall("input", dp, enabledStats, <<>>)

Expand ==
    /\ call.state = "input"
    /\ call' = [call EXCEPT
                  !.state = "expanded",
                  !.out = summaryToGauges(buildCloudWatchMetricFromKeyValues(call.dp.Attributes),
                                          call.dp, expandLabels, call.enabledStats)]
    /\ UNCHANGED <<hvars, cvars, procs, decoder>>

ExpandNext == Expand

SpecExpand == ExpandInit /\ [][ExpandNext]_vars

\* the values of the gauges of one statistic, in order
GaugeValues(gauges, stat) ==
    LET Named(g) == g.Name = BuildMetricName("AWS/EC2", "CPUUtilization", stat)
        named == SelectSeq(gauges, Named)
    IN  [i \in 1..Len(named) |-> named[i].DataPoints[1].Value]

\* the values of the quantile pairs that map to one statistic, in order
PairValues(qvs, stat) ==
    LET Maps(qv) == quantileToStatistic(qv.Quantile) = stat
        mapped == SelectSeq(qvs, Maps)
    IN  [i \in 1..Len(mapped) |-> mapped[i].Value]

QuantileStats == {"Minimum", "Maximum", "p50"}

\* C15: for one summary data point and enabled set S the expander gives a
\* SampleCount gauge (= count) iff SampleCount is in S, a Sum gauge (= sum) iff
\* Sum is in S, an Average gauge (= sum/count) iff Average is in S and
\* count > 0, one gauge per quantile pair whose statistic is in S, with the
\* pair's value, and nothing else; every gauge has the data point's timestamp
\* and start timestamp and the given labels.
C15_ExactGauges ==
    call.state = "expanded" =>
        LET dp == call.dp
            S == call.enabledStats
            out == call.out
            average == GaugeValues(out, "Average")
        IN  /\ GaugeValues(out, "SampleCount")
                  = IF "SampleCount" \in S THEN <<Float(dp.Count, 1)>> ELSE <<>>
            /\ GaugeValues(out, "Sum") = IF "Sum" \in S THEN <<dp.Sum>> ELSE <<>>
            /\ Len(average) = IF "Average" \in S /\ dp.Count > 0 THEN 1 ELSE 0
            /\ \A i \in 1..Len(average) :
                  /\ average[i].den # 0
                  /\ average[i].num * dp.Sum.den * dp.Count = dp.Sum.num * average[i].den
            /\ \A stat \in QuantileStats :
                  GaugeValues(out, stat) = IF stat \in S THEN PairValues(dp.QuantileValues, stat)
                                           ELSE <<>>
            /\ Len(out) = Len(GaugeValues(out, "SampleCount")) + Len(GaugeValues(out, "Sum"))
                          + Len(average) + Len(GaugeValues(out, "Minimum"))
                          + Len(GaugeValues(out, "Maximum")) + Len(GaugeValues(out, "p50"))
            /\ \A i \in 1..Len(out) :
                  /\ out[i].Type = "Gauge"
                  /\ Len(out[i].DataPoints) = 1
                  /\ out[i].DataPoints[1].TimeUnixNano = dp.TimeUnixNano
                  /\ out[i].DataPoints[1].StartTimeUnixNano = dp.StartTimeUnixNano
                  /\ out[i].DataPoints[1].Attributes = expandLabels

\* a data point with count 0 and Average enabled was expanded: the gauges are
\* SampleCount, Sum and one quantile gauge, the pair of a disabled statistic
\* giving none
C15_Witness ==
    /\ call.state = "expanded"
    /\ call.dp.Count = 0
    /\ call.enabledStats = {"SampleCount", "Sum", "Average", "Maximum"}
    /\ call.dp.QuantileValues = <<QuantileValue(0, Float(2, 1)), QuantileValue(1000, Float(7, 1))>>
    /\ Len(call.out) = 3

(***************************************************************************)
(* SpecQuantile: quantileToStatistic on one quantile, in thousandths       *)
(* (TestQuantileToStatistic).                                              *)
(***************************************************************************)
QuantileCall(state, q, out) == [fn |-> "quantileToStatistic", state |-> state, q |-> q, out |-> out]

QuantileInit ==
    /\ IdleProgram
    /\ \E q \in 0..1000 : call = QuantileCall("input", q, "")

MapQuantile ==
    /\ call.state = "input"
    /\ call' = [call EXCEPT !.state = "mapped", !.out = quantileToStatistic(call.q)]
    /\ UNCHANGED <<hvars, cvars, procs, decoder>>

QuantileNext == MapQuantile

SpecQuantile == QuantileInit /\ [][QuantileNext]_vars

\* C16: quantile 0.0 maps to Minimum, 1.0 to Maximum, any other quantile q to
\* p<N> when q*100 is the integer N and to p<N>_<decimal> when q*100 has a
\* fractional part (0.5 -> p50, 0.95 -> p95, 0.99 -> p99, 0.999 -> p99_9).
C16_QuantileMapping ==
    call.state = "mapped" =>
        call.out = IF call.q = 0 THEN "Minimum"
                   ELSE IF call.q = 1000 THEN "Maximum"
                   ELSE IF call.q % 10 = 0 THEN "p" \o ToString(call.q \div 10)
                   ELSE "p" \o ToString(call.q \div 10) \o "_" \o ToString(call.q % 10)

(***************************************************************************)
(* SpecLabels: buildYACELabelsKeyValue on one descriptor, one association  *)
(* result and one configuration.                                           *)
(***************************************************************************)
\* a resource with a tag whose name is no label name
ec2odd == [ARN |-> "arn:aws:ec2:i-3", Namespace |-> "AWS/EC2", Region |-> "us-east-1",
           Tags |-> <<Tag("Name", "odd"), Tag("9lives", "x")>>]

\* what AssociateMetricToResource can return: no resource, with or without
\* skip, or a resource
LabelAssociations ==
    {[r |-> NilResource, skip |-> FALSE], [r |-> NilResource, skip |-> TRUE]}
    \cup {[r |-> x, skip |-> FALSE] : x \in {ec2a, ec2b, ec2odd}}

LabelDimensions ==
    {<<>>,
     <<Dimension("InstanceId", "i-1")>>,
     <<Dimension("InstanceId", "i-1"), Dimension("BucketName", "logs")>>,
     <<Dimension("InstanceId", "i-1"), Dimension("9lives", "x")>>,
     <<Dimension("InstanceId", "i-1"), Dimension("InstanceId", "i-2")>>}

\* the entries of the static label map, in every order of iteration
LabelStatics ==
    {<<>>, <<Tag("env", "prod")>>, <<Tag("env", "prod"), Tag("Team", "x")>>,
     <<Tag("Team", "x"), Tag("env", "prod")>>, <<Tag("9lives", "z")>>}

LabelExportedTags == {<<>>, <<"Name">>, <<"Name", "Team">>}

LabelCall(state, cwm, a, staticLabels, defaultLabels, labelsSnakeCase, exportedTags, region, accountID) ==
    [fn |-> "buildYACELabelsKeyValue", state |-> state, cwm |-> cwm, r |-> a.r, skip |-> a.skip,
     staticLabels |-> staticLabels, defaultLabels |-> defaultLabels,
     labelsSnakeCase |-> labelsSnakeCase, exportedTags |-> exportedTags, region |-> region,
     accountID |-> accountID, out |-> <<>>]

LabelInit ==
    /\ IdleProgram
    /\ \E dims \in LabelDimensions, a \in LabelAssociations, staticLabels \in LabelStatics,
          defaultLabels \in BOOLEAN, labelsSnakeCase \in BOOLEAN,
          exportedTags \in LabelExportedTags, region \in {"", "us-east-1"},
          accountID \in {"", "123456789012"} :
          call = LabelCall("input",
                           [Namespace |-> "AWS/EC2", MetricName |-> "CPUUtilization",
                            Dimensions |-> dims],
                           a, staticLabels, defaultLabels, labelsSnakeCase, exportedTags, region,
                           accountID)

BuildLabels ==
    /\ call.state = "input"
    /\ call' = [call EXCEPT
                  !.state = "built",
                  !.out = buildYACELabelsKeyValue(call.cwm, call.r, call.skip, call.staticLabels,
                              call.defaultLabels, call.labelsSnakeCase, call.exportedTags,
                              call.region, call.accountID)]
    /\ UNCHANGED <<hvars, cvars, procs, decoder>>

LabelNext == BuildLabels

SpecLabels == LabelInit /\ [][LabelNext]_vars

\* the names labels are made from, and the keys of one group of labels
LabelSourceNames == {"InstanceId", "BucketName", "9lives", "Name", "Environment", "Team", "env"}

GroupKeys(prefix) ==
    {prefix \o PromStringTag(n, sc).tag : n \in LabelSourceNames, sc \in BOOLEAN}

\* the group a label belongs to, by its key: 1 region, 2 account_id,
\* 3 namespace, 4 name, 5 dimension_*, 6 tag_*, 7 custom_tag_*
LabelGroup(key) ==
    CASE key = "region" -> 1
      [] key = "account_id" -> 2
      [] key = "namespace" -> 3
      [] key = "name" -> 4
      [] key \in GroupKeys("dimension_") -> 5
      [] key \in GroupKeys("tag_") -> 6
      [] key \in GroupKeys("custom_tag_") -> 7
      [] OTHER -> 0

\* the labels of one group, in the order they were emitted
GroupLabels(labels, group) ==
    LET InGroup(kv) == LabelGroup(kv.Key) = group IN SelectSeq(labels, InGroup)

UsableResource == call.r # NilResource /\ ~call.skip

\* C17: the labels are emitted in the order region, account_id, namespace,
\* name, dimension_* (in descriptor order), tag_*, custom_tag_*: no label of
\* an earlier group follows a label of a later group, and region and
\* account_id are emitted only when non-empty.
C17_LabelOrder ==
    call.state = "built" =>
        LET out == call.out
            HasName(d) == PromStringTag(d.Name, call.labelsSnakeCase).ok
            dims == SelectSeq(call.cwm.Dimensions, HasName)
        IN  /\ \A i \in 1..Len(out) : LabelGroup(out[i].Key) # 0
            /\ \A i, j \in 1..Len(out) :
                  i < j => /\ LabelGroup(out[i].Key) <= LabelGroup(out[j].Key)
                           /\ LabelGroup(out[i].Key) <= 4
                                 => LabelGroup(out[i].Key) < LabelGroup(out[j].Key)
            /\ GroupLabels(out, 1)
                  = IF call.region # "" THEN <<StrKV("region", call.region)>> ELSE <<>>
            /\ GroupLabels(out, 2)
                  = IF call.accountID # "" THEN <<StrKV("account_id", call.accountID)>> ELSE <<>>
            /\ GroupLabels(out, 3) = <<StrKV("namespace", call.cwm.Namespace)>>
            /\ Len(GroupLabels(out, 4)) = 1
            /\ GroupLabels(out, 5)
                  = [i \in 1..Len(dims) |->
                        StrKV("dimension_" \o PromStringTag(dims[i].Name, call.labelsSnakeCase).tag,
                              dims[i].Value)]

\* labels of all seven groups were built, with two dimensions, two tags and
\* two static labels
C17_Witness ==
    /\ call.state = "built"
    /\ call.region # "" /\ call.accountID # ""
    /\ Len(GroupLabels(call.out, 5)) = 2
    /\ Len(GroupLabels(call.out, 6)) = 2
    /\ Len(GroupLabels(call.out, 7)) = 2
    /\ Len(call.out) = 10

(***************************************************************************)
DecodeFails(record) == rawDataIntoRequests(record.Data).err # NoErr

\* C11: a record with a bad length prefix or invalid inner bytes before its end
\* decodes to an error and no requests; under the continue policy the handler
\* emits the record's original data unchanged for it, under the abort policy
\* the invocation fails.
C11_MalformedRecordPassedThrough ==
    /\ \A i \in 1..Len(responseRecords) :
          DecodeFails(request[i]) =>
             /\ rawDataIntoRequests(request[i].Data).requests = <<>>
             /\ cfg.continueOnExportFailure
             /\ responseRecords[i].RecordID = request[i].RecordID
             /\ responseRecords[i].Data = request[i].Data
    /\ returned.at = "decode" =>
          /\ ~cfg.continueOnExportFailure
          /\ returned.isNil /\ DecodeFails(request[recIdx])

\* C13: in pass_through mode the data of every response record is the input
\* record's original data, byte for byte, whatever was done to the decoded
\* requests; in enhanced mode it is the encoding of the enriched requests.
C13_Step ==
    (pc = "respond" /\ pc' = "record") =>
        LET out == responseRecords'[Len(responseRecords')]
        IN  /\ out.RecordID = request[recIdx].RecordID
            /\ out.Data = IF cfg.outputMode = "enhanced"
                          THEN requestsIntoRawData(expMetricsReqs)
                          ELSE request[recIdx].Data

C13_PassThroughKeepsData == [][C13_Step]_vars

\* the gauges one summary data point of the decoded record gives: those of the
\* expander when the data point was enriched, none when it was skipped
GaugesOfDataPoint(orig, i, j, k, m, d) ==
    LET its == Iterations(orig)
        n == CHOOSE n \in 1..Len(its) : its[n] = Iteration("dp", i, j, k, m, d)
        rm == orig[i].ResourceMetrics[j]
        dp == rm.ScopeMetrics[k].Metrics[m].DataPoints[d]
        cwm == buildCloudWatchMetricFromKeyValues(dp.Attributes)
        ra == extractResourceAttributes(rm)
        a == AssociateMetricToResource(associatorsPerNamespace[cwm.Namespace], cwm)
        labels == buildYACELabelsKeyValue(cwm, a.r, a.skip, cfg.staticLabels, cfg.defaultLabels,
                      cfg.labelsSnakeCase, cfg.exportedTags,
                      IF ra.resourceRegion = "" THEN cfg.region ELSE ra.resourceRegion,
                      ra.accountID)
    IN  IF visited[n].outcome = "enriched"
        THEN summaryToGauges(cwm, dp, labels, cfg.yaceCompatStats)
        ELSE <<>>

\* the metric list a group of the decoded record is to have after expansion
ExpandedMetrics(orig, i, j, k) ==
    LET metrics == orig[i].ResourceMetrics[j].ScopeMetrics[k].Metrics
    IN  Flatten([m \in 1..Len(metrics) |->
                    IF metrics[m].Type = "Summary"
                    THEN Flatten([d \in 1..Len(metrics[m].DataPoints) |->
                                     GaugesOfDataPoint(orig, i, j, k, m, d)])
                    ELSE <<metrics[m]>>])

\* a metric but for what enrichment in place may change: its name and the
\* attributes of its data points
MetricShape(metric) ==
    [metric EXCEPT !.Name = "",
                   !.DataPoints = [d \in 1..Len(metric.DataPoints) |->
                                      [metric.DataPoints[d] EXCEPT !.Attributes = <<>>]]]

\* the metric groups of requests: request, resource and group index
GroupsOf(reqs) ==
    UNION {UNION {{<<i, j, k>> : k \in 1..Len(reqs[i].ResourceMetrics[j].ScopeMetrics)} :
                     j \in 1..Len(reqs[i].ResourceMetrics)} : i \in 1..Len(reqs)}

\* C14: when enhanceRequests has returned, in expansion mode the metric list of
\* every group is the concatenation, in input order, of the gauges of its
\* summary data points and of its other metrics unchanged; in non-expansion
\* mode every group has the same metrics in the same order, changed at most in
\* their name and their data points' attributes.
C14_MetricLists ==
    pc \in {"export", "respond"} =>
        LET orig == DecodedRecord
        IN  /\ GroupsOf(expMetricsReqs) = GroupsOf(orig)
            /\ \A g \in GroupsOf(orig) :
                  LET was == orig[g[1]].ResourceMetrics[g[2]].ScopeMetrics[g[3]].Metrics
                      is == expMetricsReqs[g[1]].ResourceMetrics[g[2]].ScopeMetrics[g[3]].Metrics
                  IN  IF cfg.yaceCompatMode
                      THEN is = ExpandedMetrics(orig, g[1], g[2], g[3])
                      ELSE /\ Len(is) = Len(was)
                           /\ \A m \in 1..Len(was) :
                                 /\ MetricShape(is[m]) = MetricShape(was[m])
                                 /\ was[m].Type # "Summary" => is[m] = was[m]

\* expansion mode: one group grew from one summary to several gauges with a
\* skipped data point dropped, another kept its gauge and lost its summary
C14_Witness ==
    /\ pc = "export" /\ cfg.yaceCompatMode
    /\ DecodedRecord = <<reqMixed>>
    /\ Len(expMetricsReqs[1].ResourceMetrics[1].ScopeMetrics[1].Metrics) > 1
    /\ expMetricsReqs[1].ResourceMetrics[1].ScopeMetrics[2].Metrics
          = <<Metric("host.cpu", "Gauge", <<gaugeDP>>)>>

\* the label a tag or static label with a valid name gives
TagLabel(prefix, tag) == StrKV(prefix \o PromStringTag(tag.Key, call.labelsSnakeCase).tag, tag.Value)

\* the entries whose name is a valid label name
ValidTags(tags) ==
    LET HasName(t) == PromStringTag(t.Key, call.labelsSnakeCase).ok IN SelectSeq(tags, HasName)

\* the resource's tags that pass the allow-list (all of them when there is none)
AllowedTags ==
    LET Allowed(t) ==
            call.exportedTags = <<>> \/ \E i \in 1..Len(call.exportedTags) : call.exportedTags[i] = t.Key
    IN  SelectSeq(ValidTags(call.r.Tags), Allowed)

\* C18: with a resource and skip false, name is the resource's ARN and the
\* tag_ labels are one per resource tag, restricted to the allow-list when
\* there is one, with no tag_ label for a key the resource does not carry;
\* with no resource or skip true, name is "global" and there is no tag_ label.
C18_ResourceLabels ==
    call.state = "built" =>
        LET tags == GroupLabels(call.out, 6)
        IN  IF UsableResource
            THEN /\ GroupLabels(call.out, 4) = <<StrKV("name", call.r.ARN)>>
                 /\ Len(tags) = Len(AllowedTags)
                 /\ {tags[i] : i \in 1..Len(tags)}
                       = {TagLabel("tag_", AllowedTags[i]) : i \in 1..Len(AllowedTags)}
            ELSE /\ GroupLabels(call.out, 4) = <<StrKV("name", "global")>>
                 /\ tags = <<>>

\* C19: the custom_tag_ labels, one per static label, are emitted exactly when
\* a resource matched and was not skipped or the default-labels flag is set;
\* with the flag unset and no usable resource there is none.  (Static labels
\* with valid label names; the others are dropped, see C20.)
C19_CustomTags ==
    (/\ call.state = "built"
     /\ ValidTags(call.staticLabels) = call.staticLabels) =>
        GroupLabels(call.out, 7)
            = IF UsableResource \/ call.defaultLabels
              THEN [i \in 1..Len(call.staticLabels) |-> TagLabel("custom_tag_", call.staticLabels[i])]
              ELSE <<>>

\* association was skipped and the default-labels flag is set: both static
\* labels were emitted, and no tag label
C19_Witness ==
    /\ call.state = "built"
    /\ call.r = NilResource /\ call.skip /\ call.defaultLabels
    /\ Len(call.staticLabels) = 2
    /\ Len(GroupLabels(call.out, 7)) = 2
    /\ GroupLabels(call.out, 6) = <<>>

\* the precondition of C20: a matched resource, not skipped, with account and
\* region
C20_Matched == call.state = "built" /\ UsableResource /\ call.region # "" /\ call.accountID # ""

\* the keys of the labels are pairwise distinct
DistinctKeys(labels) == \A i, j \in 1..Len(labels) : labels[i].Key = labels[j].Key => i = j

\* the first four labels of a matched resource
ContextLabels ==
    <<StrKV("region", call.region), StrKV("account_id", call.accountID),
      StrKV("namespace", call.cwm.Namespace), StrKV("name", call.r.ARN)>>

\* the value the resource carries for a key, "" when it carries none
CarriedValue(key) ==
    IF \E j \in 1..Len(call.r.Tags) : call.r.Tags[j].Key = key
    THEN LET first == CHOOSE j \in 1..Len(call.r.Tags) :
                         /\ call.r.Tags[j].Key = key
                         /\ \A h \in 1..(j - 1) : call.r.Tags[h].Key # key
         IN  call.r.Tags[first].Value
    ELSE ""

\* the tags exported for the resource: its own, or one per allow-list key
ExportedTags ==
    IF call.exportedTags = <<>> THEN call.r.Tags
    ELSE [i \in 1..Len(call.exportedTags) |->
             Tag(call.exportedTags[i], CarriedValue(call.exportedTags[i]))]

\* C20 as amended: for a matched, non-skipped resource with non-empty account and
\* region the labels are exactly region, account_id, namespace, name, one
\* dimension_* per descriptor dimension with a valid label name, one tag_* per
\* exported tag with a valid name (the resource's tags, or one per allow-list
\* key, carried or not) and one custom_tag_* per static label with a valid
\* name; no key appears twice when the converted names within each group are
\* distinct.
C20_CompleteForValidNames ==
    C20_Matched =>
        LET out == call.out
            HasName(d) == PromStringTag(d.Name, call.labelsSnakeCase).ok
            dims == SelectSeq(call.cwm.Dimensions, HasName)
            tags == ValidTags(ExportedTags)
            statics == ValidTags(call.staticLabels)
            Converted(n) == PromStringTag(n, call.labelsSnakeCase).tag
        IN  /\ Len(out) = 4 + Len(dims) + Len(tags) + Len(statics)
            /\ \A i \in 1..4 : GroupLabels(out, i) = <<ContextLabels[i]>>
            /\ GroupLabels(out, 5)
                  = [i \in 1..Len(dims) |->
                        StrKV("dimension_" \o PromStringTag(dims[i].Name, call.labelsSnakeCase).tag,
                              dims[i].Value)]
            /\ GroupLabels(out, 6) = [i \in 1..Len(tags) |-> TagLabel("tag_", tags[i])]
            /\ GroupLabels(out, 7) = [i \in 1..Len(statics) |-> TagLabel("custom_tag_", statics[i])]
            /\ (/\ \A i, j \in 1..Len(dims) : Converted(dims[i].Name) = Converted(dims[j].Name) => i = j
                /\ \A i, j \in 1..Len(tags) : Converted(tags[i].Key) = Converted(tags[j].Key) => i = j
                /\ \A i, j \in 1..Len(statics) :
                      Converted(statics[i].Key) = Converted(statics[j].Key) => i = j)
                  => DistinctKeys(out)

\* a matched resource with an invalid dimension name, an allow-list key the
\* resource does not carry and two static labels: nine labels
C20_Witness ==
    /\ C20_Matched
    /\ Len(call.cwm.Dimensions) = 2 /\ Len(GroupLabels(call.out, 5)) = 1
    /\ call.exportedTags = <<"Name", "Team">> /\ Len(GroupLabels(call.out, 6)) = 2
    /\ Len(call.staticLabels) = 2
    /\ Len(call.out) = 9

\* C20: for a matched, non-skipped resource with non-empty account and region
\* the labels are exactly region, account_id, namespace, name, one dimension_*
\* per descriptor dimension, one tag_* per exported resource tag and one
\* custom_tag_* per static label; no key appears twice and none is missing.
C20_Complete ==
    C20_Matched =>
        LET out == call.out
            Allowed(t) ==
                call.exportedTags = <<>>
                \/ \E i \in 1..Len(call.exportedTags) : call.exportedTags[i] = t.Key
        IN  /\ \A i \in 1..4 : GroupLabels(out, i) = <<ContextLabels[i]>>
            /\ Len(GroupLabels(out, 5)) = Len(call.cwm.Dimensions)
            /\ Len(GroupLabels(out, 6)) = Len(SelectSeq(call.r.Tags, Allowed))
            /\ Len(GroupLabels(out, 7)) = Len(call.staticLabels)
            /\ Len(out) = 4 + Len(call.cwm.Dimensions) + Len(SelectSeq(call.r.Tags, Allowed))
                          + Len(call.staticLabels)
            /\ DistinctKeys(out)

(***************************************************************************)
(* Properties of skipped data points and of in-place enrichment (Spec).    *)
(***************************************************************************)
\* the data point of a "dp" iteration, in given requests
DataPointOf(reqs, it) ==
    reqs[it.req].ResourceMetrics[it.rm].ScopeMetrics[it.sm].Metrics[it.metric].DataPoints[it.dp]

\* the data point's Namespace or MetricName attribute is missing or empty, or
\* its namespace is none of the supported services
SkippedDescriptor(attrs) ==
    \/ attrValue(attrs, "Namespace") = ""
    \/ attrValue(attrs, "MetricName") = ""
    \/ attrValue(attrs, "Namespace") \notin {"AWS/EC2", "AWS/S3"}

C21_Step ==
    (/\ pc = "enhance" /\ todo # <<>> /\ Head(todo).kind = "dp"
     /\ SkippedDescriptor(DataPointOf(expMetricsReqs, Head(todo)).Attributes)) =>
        /\ UNCHANGED <<lastGet, discoveryCalls, files, fetchedOK, resourcesPerNamespace,
                       associatorsPerNamespace, expMetricsReqs, newMetrics>>
        /\ todo' = Tail(todo)
        /\ pc' = "enhance"

C21_Kept ==
    (pc = "export" /\ ~cfg.yaceCompatMode) =>
        \A n \in 1..Len(visited) :
            LET it == Iterations(DecodedRecord)[n]
            IN  visited[n].outcome \in {"incomplete", "unsupported"} =>
                    DataPointOf(expMetricsReqs, it) = DataPointOf(DecodedRecord, it)

\* C21: a data point whose descriptor has no namespace or no metric name, or
\* whose namespace is unsupported, causes no cache lookup, no discovery call
\* and no associator creation, and its attributes are left as they were.
C21_SkippedBeforeCache == [](C21_Kept) /\ [][C21_Step]_vars

\* a record was enhanced in place with a data point without metric name and a
\* data point of an unsupported namespace skipped, and another enriched
C21_Witness ==
    /\ pc = "export" /\ ~cfg.yaceCompatMode
    /\ \E i, j, k \in 1..Len(visited) :
          /\ visited[i].outcome = "incomplete"
          /\ visited[j].outcome = "enriched"
          /\ visited[k].outcome = "unsupported"
    /\ lastGet.n = 1

\* the string of the first attribute with the key, "" when there is none
FirstValue(attrs, key) ==
    IF \E i \in 1..Len(attrs) : attrs[i].Key = key
    THEN GetStringValue(attrs[CHOOSE i \in 1..Len(attrs) :
                                  /\ attrs[i].Key = key
                                  /\ \A h \in 1..(i - 1) : attrs[h].Key # key])
    ELSE ""

\* the statistic of a data point: its Statistic attribute, else its statistic
\* attribute, else none
StatisticOf(attrs) ==
    IF FirstValue(attrs, "Statistic") # "" THEN FirstValue(attrs, "Statistic")
    ELSE FirstValue(attrs, "statistic")

\* the step enriched the data point of the iteration
EnrichedStep ==
    /\ pc = "enhance" /\ todo # <<>> /\ Head(todo).kind = "dp"
    /\ visited' = Append(visited, Visit(Head(todo), "enriched"))

C22_Step ==
    (EnrichedStep /\ ~cfg.yaceCompatMode) =>
        LET it == Head(todo)
            rm == expMetricsReqs[it.req].ResourceMetrics[it.rm]
            was == rm.ScopeMetrics[it.sm].Metrics[it.metric]
            is == expMetricsReqs'[it.req].ResourceMetrics[it.rm].ScopeMetrics[it.sm].Metrics[it.metric]
            attrs == was.DataPoints[it.dp].Attributes
            ra == extractResourceAttributes(rm)
            a == AssociateMetricToResource(associatorsPerNamespace'[FirstValue(attrs, "Namespace")],
                                           buildCloudWatchMetricFromKeyValues(attrs))
        IN  /\ is.Type = "Summary"
            /\ is.Name = BuildMetricName(FirstValue(attrs, "Namespace"),
                                         FirstValue(attrs, "MetricName"), StatisticOf(attrs))
            /\ is.DataPoints[it.dp].Attributes
                  = buildYACELabelsKeyValue(buildCloudWatchMetricFromKeyValues(attrs), a.r, a.skip,
                        cfg.staticLabels, cfg.defaultLabels, cfg.labelsSnakeCase, cfg.exportedTags,
                        IF ra.resourceRegion = "" THEN cfg.region ELSE ra.resourceRegion,
                        ra.accountID)
            /\ [is EXCEPT !.Name = was.Name,
                          !.DataPoints[it.dp].Attributes = attrs] = was
            /\ expMetricsReqs' =
                  [expMetricsReqs EXCEPT
                     ![it.req].ResourceMetrics[it.rm].ScopeMetrics[it.sm].Metrics[it.metric] = is]

\* C22: in non-expansion mode an enriched summary data point has its
\* attributes replaced by the built labels, and its metric stays a summary
\* with the name built from namespace, metric name and the statistic: the
\* Statistic attribute when present, else the statistic attribute, else none.
C22_InPlace == [][C22_Step]_vars

\* metrics were renamed in place: one with the statistic in lower case, one
\* without statistic
C22_Witness ==
    /\ pc = "export" /\ ~cfg.yaceCompatMode
    /\ DecodedRecord = <<reqRegions>>
    /\ expMetricsReqs[1].ResourceMetrics[1].ScopeMetrics[1].Metrics[1].Name
          = "aws_ec2_cpuutilization_sum"
    /\ expMetricsReqs[1].ResourceMetrics[2].ScopeMetrics[1].Metrics[1].Name
          = "aws_ec2_cpuutilization"
    /\ expMetricsReqs[1].ResourceMetrics[2].ScopeMetrics[1].Metrics[1].Type = "Summary"

(***************************************************************************)
(* SpecDescriptor: buildCloudWatchMetricFromKeyValues on an attribute list, *)
(* on a permutation of it and on its recognized attributes alone.          *)
(***************************************************************************)
MaxAttrs == 3

DescriptorAttrs ==
    {StrKV("Namespace", "AWS/EC2"), StrKV("Namespace", "AWS/S3"),
     StrKV("MetricName", "CPUUtilization"), NilKV("MetricName"),
     ListKV("Dimensions", <<StrKV("InstanceId", "i-1"), NilKV("AutoScalingGroupName")>>),
     ListKV("Dimensions", <<StrKV("BucketName", "logs")>>),
     StrKV("host", "a")}

RecognizedKeys == {"Namespace", "MetricName", "Dimensions"}

\* the attributes with a recognized key, in their order
RecognizedOnly(attrs) ==
    LET Recognized(a) == a.Key \in RecognizedKeys IN SelectSeq(attrs, Recognized)

NoDescriptor == [Namespace |-> "", MetricName |-> "", Dimensions |-> <<>>]

DescriptorCall(state, attrs, permuted, out, outPermuted, outRecognized) ==
    [fn |-> "buildCloudWatchMetricFromKeyValues", state |-> state, attrs |-> attrs, permuted |-> permuted, out |-> out, outPermuted |-> outPermuted, outRecognized |-> outRecognized]

DescriptorInit ==
    /\ IdleProgram
    /\ \E n \in 0..MaxAttrs :
          \E attrs \in [1..n -> DescriptorAttrs], perm \in Permutations(1..n) :
             call = DescriptorCall("input", attrs, [i \in 1..n |-> attrs[perm[i]]],
                                   NoDescriptor, NoDescriptor, NoDescriptor)

Extract ==
    /\ call.state = "input"
    /\ call' = [call EXCEPT !.state = "extracted",
                            !.out = buildCloudWatchMetricFromKeyValues(call.attrs),
                            !.outPermuted = buildCloudWatchMetricFromKeyValues(call.permuted),
                            !.outRecognized = buildCloudWatchMetricFromKeyValues(RecognizedOnly(call.attrs))]
    /\ UNCHANGED <<hvars, cvars, procs, decoder>>

DescriptorNext == Extract

SpecDescriptor == DescriptorInit /\ [][DescriptorNext]_vars

\* the key occurs in at most one attribute that has a value
AtMostOnce(attrs, key) ==
    \A i, j \in 1..Len(attrs) :
        (attrs[i].Key = key /\ attrs[j].Key = key /\ attrs[i].Kind # "nil" /\ attrs[j].Kind # "nil")
            => i = j

UniqueRecognized(attrs) == \A key \in RecognizedKeys : AtMostOnce(attrs, key)

\* C23 as stated: every permutation of an attribute list, repeated recognized
\* keys included, gives the same namespace, metric name and dimensions.
C23_OrderIndependent ==
    call.state = "extracted" => call.outPermuted = call.out

\* C23 as amended: attributes with other keys never affect the descriptor, and
\* for an attribute list in which each recognized key occurs at most once with
\* a value every permutation gives the same namespace, metric name and
\* dimensions.
C23_OrderIndependentWhenUnique ==
    call.state = "extracted" =>
        /\ call.outRecognized = call.out
        /\ UniqueRecognized(call.attrs) => call.outPermuted = call.out

\* a full descriptor extracted from a reordered list that also holds another key
C23_Witness ==
    /\ call.state = "extracted"
    /\ UniqueRecognized(call.attrs)
    /\ call.permuted # call.attrs
    /\ \E i \in 1..Len(call.attrs) : call.attrs[i].Key \notin RecognizedKeys
    /\ call.out.Namespace = "AWS/EC2"
    /\ call.out.Dimensions # <<>>
    /\ call.outPermuted = call.out

(***************************************************************************)
(* SpecConfig: the configuration values lambdaHandler parses from the      *)
(* environment.  A text is a sequence of JSON tokens; a string literal     *)
(* carries its pieces, with every "=" a piece of its own.                  *)
(***************************************************************************)
MaxItems == 2

JTok(t) == [t |-> t, s |-> <<>>]
JStr(pieces) == [t |-> "string", s |-> pieces]

RECURSIVE jsonArrayTokens(_)
jsonArrayTokens(items) ==
    IF items = <<>> THEN <<>>
    ELSE IF Len(items) = 1 THEN <<items[1]>>
    ELSE <<items[1], JTok(",")>> \o jsonArrayTokens(Tail(items))

jsonArray(items) == <<JTok("[")>> \o jsonArrayTokens(items) \o <<JTok("]")>>

\* strings.Join of the pieces of a string
RECURSIVE Concat(_)
Concat(pieces) == IF pieces = <<>> THEN "" ELSE pieces[1] \o Concat(Tail(pieces))

\* json.Unmarshal into a []string: a number where a string is expected is
\* reported after the array has been read, its element left empty
jsonUnmarshalStrings(b) ==
    IF b = <<JTok("null")>> THEN [value |-> <<>>, err |-> NoErr]
    ELSE IF Len(b) >= 2 /\ b[1] = JTok("[") /\ b[Len(b)] = JTok("]")
    THEN LET inner == SubSeq(b, 2, Len(b) - 1)
             wellFormed ==
                 \/ inner = <<>>
                 \/ /\ Len(inner) % 2 = 1
                    /\ \A i \in 1..Len(inner) :
                          IF i % 2 = 1 THEN inner[i].t \in {"string", "number"}
                          ELSE inner[i] = JTok(",")
             n == (Len(inner) + 1) \div 2
         IN  IF ~wellFormed THEN [value |-> <<>>, err |-> "json: syntax error"]
             ELSE [value |-> [i \in 1..n |-> inner[2 * i - 1].s],
                   err |-> IF \E i \in 1..n : inner[2 * i - 1].t = "number"
                           THEN "json: cannot unmarshal number into Go value of type string"
                           ELSE NoErr]
    ELSE [value |-> <<>>, err |-> "json: syntax error"]

\* strings.Contains(label, "=")
HasEquals(label) == \E i \in 1..Len(label) : label[i] = "="

FirstEquals(label) == CHOOSE i \in 1..Len(label) : label[i] = "=" /\ \A j \in 1..(i - 1) : label[j] # "="

\* strings.Split(label, "=")[0] and strings.SplitN(label, "=", 2)[1]
LabelKey(label) == Concat(SubSeq(label, 1, FirstEquals(label) - 1))
LabelValue(label) == Concat(SubSeq(label, FirstEquals(label) + 1, Len(label)))

\* the map filled from the first n entries: a later entry overwrites an
\* earlier one with the same key
LabelMap(rawLabels, n) ==
    [k \in {LabelKey(rawLabels[i]) : i \in 1..n} |->
        LabelValue(rawLabels[CHOOSE i \in 1..n :
            /\ LabelKey(rawLabels[i]) = k
            /\ \A j \in (i + 1)..n : LabelKey(rawLabels[j]) # k])]

parseStaticLabels(env) ==
    IF env = <<>> THEN [labels |-> <<>>, err |-> NoErr]
    ELSE LET u == jsonUnmarshalStrings(env)
             bad == {i \in 1..Len(u.value) : u.value[i] = <<>> \/ ~HasEquals(u.value[i])}
             first == CHOOSE i \in bad : \A j \in bad : i <= j
         IN  IF u.err # NoErr THEN [labels |-> <<>>, err |-> u.err]
             ELSE IF bad = {} THEN [labels |-> LabelMap(u.value, Len(u.value)), err |-> NoErr]
             ELSE [labels |-> LabelMap(u.value, first - 1),
                   err |-> IF u.value[first] = <<>>
                           THEN "STATIC_LABELS contains empty string"
                           ELSE "STATIC_LABELS contains string that is not a key=value pair"]

parseExportedTags(env) ==
    IF env = <<>> THEN [tags |-> <<>>, err |-> NoErr]
    ELSE LET u == jsonUnmarshalStrings(env)
         IN  IF u.err # NoErr THEN [tags |-> <<>>, err |-> u.err]
             ELSE [tags |-> [i \in 1..Len(u.value) |-> Concat(u.value[i])], err |-> NoErr]

parseYACEStats(env) ==
    IF env = <<>> THEN [enabled |-> defaultYACEStats, err |-> NoErr]
    ELSE LET u == jsonUnmarshalStrings(env)
         IN  IF u.err # NoErr THEN [enabled |-> {}, err |-> u.err]
             ELSE [enabled |-> {Concat(u.value[i]) : i \in 1..Len(u.value)}, err |-> NoErr]

\* the texts of an option: unset, not JSON, null, and the arrays of up to
\* MaxItems of the given items
EnvTexts(items) ==
    {<<>>, <<JTok("invalid")>>, <<JTok("null")>>, <<JTok("["), JTok(",")>>}
        \cup {jsonArray(a) : a \in UNION {[1..n -> items] : n \in 0..MaxItems}}

StaticLabelItems ==
    {JStr(<<"env", "=", "prod">>), JStr(<<"team", "=", "a", "=", "b">>), JStr(<<"env", "=", "dev">>),
     JStr(<<"noequals">>), JStr(<<>>), JTok("number")}

ExportedTagItems == {JStr(<<"Name">>), JStr(<<"Team">>), JTok("number")}

YACEStatItems == {JStr(<<"Maximum">>), JStr(<<"Average">>), JStr(<<"p99">>), JTok("number")}

ConfigCall(state, option, env, value, err) ==
    [fn |-> "lambdaHandler", state |-> state, option |-> option, env |-> env, value |-> value, err |-> err]

ConfigInit ==
    /\ IdleProgram
    /\ \/ \E env \in EnvTexts(StaticLabelItems) : call = ConfigCall("input", "STATIC_LABELS", env, <<>>, NoErr)
       \/ \E env \in EnvTexts(ExportedTagItems) : call = ConfigCall("input", "EXPORTED_TAGS_ON_METRICS", env, <<>>, NoErr)
       \/ \E env \in EnvTexts(YACEStatItems) : call = ConfigCall("input", "YACE_COMPAT_STATS", env, <<>>, NoErr)

\* main.go:49-52
ReadStaticLabels ==
    /\ call.state = "input" /\ call.option = "STATIC_LABELS"
    /\ LET p == parseStaticLabels(call.env)
       IN  call' = [call EXCEPT !.state = "configured", !.value = p.labels, !.err = p.err]
    /\ UNCHANGED <<hvars, cvars, procs, decoder>>

\* main.go:55-58
ReadExportedTags ==
    /\ call.state = "input" /\ call.option = "EXPORTED_TAGS_ON_METRICS"
    /\ LET p == parseExportedTags(call.env)
       IN  call' = [call EXCEPT !.state = "configured", !.value = p.tags, !.err = p.err]
    /\ UNCHANGED <<hvars, cvars, procs, decoder>>

\* main.go:61-66
ReadYACEStats ==
    /\ call.state = "input" /\ call.option = "YACE_COMPAT_STATS"
    /\ LET p == parseYACEStats(call.env)
       IN  call' = [call EXCEPT !.state = "configured", !.err = p.err,
                                !.value = IF p.err # NoErr THEN parseYACEStats(<<>>).enabled
                                          ELSE p.enabled]
    /\ UNCHANGED <<hvars, cvars, procs, decoder>>

ConfigNext == ReadStaticLabels \/ ReadExportedTags \/ ReadYACEStats

SpecConfig == ConfigInit /\ [][ConfigNext]_vars

\* C24: an option whose text failed to parse continues with its documented
\* default, never a partly parsed value: the default five statistics, no
\* tag allow-list (export all), the empty static-label map.
C24_ParseFailureGivesDefault ==
    (call.state = "configured" /\ call.err # NoErr) =>
        /\ call.option = "YACE_COMPAT_STATS" => call.value = defaultYACEStats
        /\ call.option = "EXPORTED_TAGS_ON_METRICS" => call.value = <<>>
        /\ call.option = "STATIC_LABELS" => call.value = <<>>

\* C24 for the statistic selection and the tag allow-list alone
C24_StatsAndTagsDefault ==
    (call.state = "configured" /\ call.err # NoErr /\ call.option # "STATIC_LABELS") =>
        /\ call.option = "YACE_COMPAT_STATS" => call.value = defaultYACEStats
        /\ call.option = "EXPORTED_TAGS_ON_METRICS" => call.value = <<>>

\* a static-label list whose second entry is malformed leaves the first entry configured
C24_PartialStaticLabels ==
    /\ call.state = "configured" /\ call.option = "STATIC_LABELS"
    /\ call.err = "STATIC_LABELS contains string that is not a key=value pair"
    /\ call.value = [k \in {"env"} |-> "prod"]

\* C25: an unset or empty statistic selection, or an empty JSON array, gives
\* the default five statistics; a non-empty array of names enables exactly
\* the listed statistics.
C25_StatSelection ==
    (call.state = "configured" /\ call.option = "YACE_COMPAT_STATS") =>
        /\ call.env \in {<<>>, jsonArray(<<>>)} => call.value = defaultYACEStats
        /\ (call.err = NoErr /\ Len(call.env) > 2) =>
              call.value = {Concat(call.env[i].s) : i \in {j \in 1..Len(call.env) : call.env[j].t = "string"}}

\* C25 without the empty array
C25_StatSelectionNonEmptyArray ==
    (call.state = "configured" /\ call.option = "YACE_COMPAT_STATS") =>
        /\ call.env = <<>> => call.value = defaultYACEStats
        /\ (call.err = NoErr /\ Len(call.env) > 2) =>
              call.value = {Concat(call.env[i].s) : i \in {j \in 1..Len(call.env) : call.env[j].t = "string"}}

\* the empty array parsed without error leaves no statistic enabled
C25_EmptyArrayEnablesNothing ==
    /\ call.state = "configured" /\ call.option = "YACE_COMPAT_STATS"
    /\ call.env = jsonArray(<<>>)
    /\ call.err = NoErr
    /\ call.value = {}

\* C26: whenever the handler returns without error, the response has exactly
\* one record per input record, in input order, each with the RecordID of its
\* input record and Result Ok, whichever records failed to decode, enrich or
\* export on the way.
C26_OneResponsePerRecord ==
    (returned.set /\ returned.err = NoErr) =>
        /\ ~returned.isNil
        /\ Len(returned.Records) = Len(request)
        /\ \A i \in 1..Len(request) :
              /\ returned.Records[i].RecordID = request[i].RecordID
              /\ returned.Records[i].Result = "Ok"

\* C26 witness: a response for two records, one that decoded and one that did
\* not, after a failed lookup and a failed export
C26_Witness ==
    /\ returned.set /\ returned.err = NoErr
    /\ Len(request) = 2
    /\ ~DecodeFails(request[1]) /\ DecodeFails(request[2])
    /\ \E i \in 1..Len(visited) : visited[i].outcome = "fetch failed"
    /\ grpcClient /\ exported = <<>>
    /\ returned.Records[2].RecordID = "r2"

SkippedOutcomes == {"incomplete", "unsupported", "fetch failed"}

ScopeOf(reqs, i, j, k) == reqs[i].ResourceMetrics[j].ScopeMetrics[k]

\* the metric groups of the requests, by position
ScopePositions(reqs) ==
    {<<i, j, k>> : i \in 1..Len(reqs), j \in 1..2, k \in 1..2} \cap
    {p \in (1..Len(reqs)) \X (1..2) \X (1..2) :
        /\ p[2] <= Len(reqs[p[1]].ResourceMetrics)
        /\ p[3] <= Len(reqs[p[1]].ResourceMetrics[p[2]].ScopeMetrics)}

\* every summary data point of the metric group was skipped
AllSkipped(p) ==
    \A n \in 1..Len(visited) :
        LET it == Iterations(DecodedRecord)[n]
        IN  (it.kind = "dp" /\ <<it.req, it.rm, it.sm>> = p) => visited[n].outcome \in SkippedOutcomes

NotSummary(metric) == metric.Type # "Summary"

\* C27: in expansion mode, once the record is enhanced, no summary metric is
\* left in any metric group, and a metric group all of whose summary data
\* points were skipped (incomplete descriptor, unsupported namespace, failed
\* fetch under the continue policy) holds its other metrics alone: the skipped
\* data points contribute nothing.
C27_SkippedSummariesVanish ==
    (pc = "export" /\ cfg.yaceCompatMode) =>
        \A p \in ScopePositions(DecodedRecord) :
            /\ \A m \in 1..Len(ScopeOf(expMetricsReqs, p[1], p[2], p[3]).Metrics) :
                  NotSummary(ScopeOf(expMetricsReqs, p[1], p[2], p[3]).Metrics[m])
            /\ AllSkipped(p) =>
                  ScopeOf(expMetricsReqs, p[1], p[2], p[3]).Metrics
                      = SelectSeq(ScopeOf(DecodedRecord, p[1], p[2], p[3]).Metrics, NotSummary)

\* C27 witness: the record with two metric groups enhanced in expansion mode,
\* the lookup for the first group failed: the first group is left empty and
\* the second holds its gauge alone
C27_Witness ==
    /\ pc = "export" /\ cfg.yaceCompatMode
    /\ DecodedRecord = <<reqMixed>>
    /\ \E n \in 1..Len(visited) : visited[n].outcome = "fetch failed"
    /\ \E n \in 1..Len(visited) : visited[n].outcome = "unsupported"
    /\ ScopeOf(expMetricsReqs, 1, 1, 1).Metrics = <<>>
    /\ ScopeOf(expMetricsReqs, 1, 1, 2).Metrics = <<Metric("host.cpu", "Gauge", <<gaugeDP>>)>>

\* C28: within one invocation discovery is invoked at most once per namespace,
\* across all data points, metric groups and records, whether the fetch
\* succeeded or failed.
C28_DiscoveryOncePerNamespace ==
    \A ns \in SupportedNamespaces : discoveryCalls[ns] <= 1

C28_Step ==
    \A ns \in SupportedNamespaces :
        (ns \in DOMAIN resourcesPerNamespace) =>
            /\ discoveryCalls'[ns] = discoveryCalls[ns]
            /\ ns \in DOMAIN resourcesPerNamespace'

\* C28 for the namespaces with an in-memory entry: once a lookup has succeeded
\* (with resources or with none found) discovery is not invoked for the
\* namespace again in the invocation
C28_NoDiscoveryAfterSuccess == [][C28_Step]_vars

\* discovery invoked twice for one namespace: the first fetch failed under the
\* continue policy and the next data point of the namespace fetched again
C28_SecondDiscovery ==
    /\ cfg.continueOnResourceFailure
    /\ \E ns \in SupportedNamespaces : discoveryCalls[ns] = 2
    /\ \E n \in 1..Len(visited) : visited[n].outcome = "fetch failed"

\* C29: an invocation that loads an entry it judged fresh obtains a resource
\* set some completed fetch wrote in full, also while another invocation is
\* refreshing the entry: it never reads an empty or partly written entry.
C29_FreshReadIsComplete ==
    \A p \in Procs :
        (procs[p].pc = "done" /\ ~procs[p].refresh) =>
            /\ procs[p].err = NoErr
            /\ procs[p].b \in ValidEntries

\* an invocation read the entry between the os.Create and the f.Write of
\* another: it judged the truncated file fresh, read nothing and failed
C29_ReadTruncatedEntry ==
    \E p, q \in Procs :
        /\ procs[p].pc = "done" /\ ~procs[p].refresh
        /\ procs[p].b = <<>> /\ procs[p].err # NoErr
        /\ procs[q].pc = "write"

\* C29 when no other invocation is between os.Create and the end of f.Write
\* while the entry is read
C29_Step ==
    \A p \in Procs :
        (procs[p].pc = "read" /\ procs'[p].pc = "done"
            /\ \A q \in Procs : procs[q].pc # "write"
            /\ files[RaceNamespace].content \in ValidEntries) =>
                /\ procs'[p].err = NoErr
                /\ procs'[p].b = files[RaceNamespace].content

C29_QuietReadIsComplete == [][C29_Step]_vars

\* the enriched data points of the record, by their place in the loops
EnrichedIterations ==
    {n \in 1..Len(visited) : visited[n].kind = "dp" /\ visited[n].outcome = "enriched"}

IterationAt(n) == Iterations(DecodedRecord)[n]

GroupAttributes(n) == DecodedRecord[IterationAt(n).req].ResourceMetrics[IterationAt(n).rm].Attributes

DescriptorAt(n) == buildCloudWatchMetricFromKeyValues(DataPointOf(DecodedRecord, IterationAt(n)).Attributes)

LabelsAt(n) == DataPointOf(expMetricsReqs, IterationAt(n)).Attributes

\* the labels other than those of the resource group's context
WithoutContext(labels) ==
    LET NotContext(l) == l.Key \notin {"region", "account_id"} IN SelectSeq(labels, NotContext)

C30_Labels ==
    (pc = "export" /\ ~cfg.yaceCompatMode) =>
        /\ \A n \in EnrichedIterations :
              /\ attrValue(LabelsAt(n), "region") =
                    (IF attrValue(GroupAttributes(n), "cloud.region") = "" THEN cfg.region
                     ELSE attrValue(GroupAttributes(n), "cloud.region"))
              /\ attrValue(LabelsAt(n), "account_id") = attrValue(GroupAttributes(n), "cloud.account.id")
        /\ \A n1, n2 \in EnrichedIterations :
              DescriptorAt(n1) = DescriptorAt(n2) =>
                  WithoutContext(LabelsAt(n1)) = WithoutContext(LabelsAt(n2))

C30_Step ==
    /\ \A ns \in DOMAIN resourcesPerNamespace' :
          ns \in SupportedNamespaces /\ resourcesPerNamespace'[ns] \in ResourceLists(ns) \cup {<<>>}
    /\ (pc = "enhance" /\ todo # <<>> /\ Head(todo).kind = "dp"
            /\ ~SkippedDescriptor(DataPointOf(expMetricsReqs, Head(todo)).Attributes)) =>
          LET ns == buildCloudWatchMetricFromKeyValues(DataPointOf(expMetricsReqs, Head(todo)).Attributes).Namespace
          IN  /\ lastGet'.namespace = ns
              /\ lastGet'.called > 0 => lastGet'.region = cfg.region
              /\ ns \in DOMAIN resourcesPerNamespace =>
                    /\ lastGet'.hit /\ lastGet'.called = 0
                    /\ resourcesPerNamespace' = resourcesPerNamespace
                    /\ lastGet'.resources = resourcesPerNamespace[ns]

\* C30: discovery is invoked with the invocation's region and the resource
\* sets are kept by namespace alone: a data point of a namespace already
\* looked up is associated against the set in memory whatever its resource
\* group's region and account, and data points with the same descriptor get
\* the same labels except region and account_id, which are the resource
\* group's (the invocation's region when the group has none).
C30_ResourcesKeyedByNamespace == [](C30_Labels) /\ [][C30_Step]_vars

\* C30 witness: two data points of AWS/EC2 in resource groups of different
\* regions and accounts enriched after one discovery call, with the same
\* resource name and their own region and account
C30_Witness ==
    /\ pc = "export" /\ ~cfg.yaceCompatMode
    /\ DecodedRecord = <<reqRegions>>
    /\ EnrichedIterations = {1, 3}
    /\ discoveryCalls["AWS/EC2"] = 1
    /\ lastGet.hit
    /\ attrValue(LabelsAt(1), "region") = "eu-west-1" /\ attrValue(LabelsAt(3), "region") = "ap-south-1"
    /\ attrValue(LabelsAt(1), "account_id") = "123456789012"
    /\ attrValue(LabelsAt(3), "account_id") = "210987654321"
    /\ attrValue(LabelsAt(1), "name") = "arn:aws:ec2:i-1"
    /\ attrValue(LabelsAt(3), "name") = "arn:aws:ec2:i-1"

====
